---- MODULE Spec2Model ----
(***************************************************************************)
(* Verification model of the Handy devops orchestration core               *)
(* (src-tauri/src/devops): the pipeline state tracker (pipeline.rs,        *)
(* orchestration.rs), the tmux session provider and its recovery           *)
(* (tmux.rs) and the agent orchestrator (orchestrator.rs).                 *)
(*                                                                         *)
(* The specifications share the variables:                                 *)
(*   SpecItem      the PipelineItem methods applied to one item            *)
(*   SpecPipeline  the pipeline command handlers over the persisted store  *)
(*   Spec          spawn_agent / cleanup_agent over sessions and worktrees *)
(*   SpecRecovery  session recovery over sessions left by spawns           *)
(*   SpecLifecycle agents, support workers, cleanup and recovery together  *)
(*   SpecEpic      epic orchestration over the tracker's sub-issues        *)
(*   SpecEpicBody  phase status read from and written to the epic body     *)
(*   SpecContainers the sandbox containers and their orphan cleanup        *)
(*   SpecPorts     allocate_port_range and remap_port_to_range             *)
(*   SpecArchive   the PipelineState methods and the bounded history       *)
(*   SpecStore     handlers that load and save the store, interleaved      *)
(*   SpecInterleave two spawn_agent calls taken step by step               *)
(*   SpecHistory   SpecArchive with the skip_issue handler                 *)
(*   SpecMaster    session recovery beside the master session              *)
(*   SpecPrPoll    the polls for pull requests and the active epic         *)
(*   SpecOrchestrations two start_orchestration calls taken step by step    *)
(***************************************************************************)
EXTENDS Integers, Sequences, FiniteSets, TLC

\* ---------------------------------------------------------------- bounds
\* Issues are numbered 1..MaxIssue; issue MaxIssue + 1 does not exist on the tracker.
MaxIssue == 2
\* Distinct tmux session names the model can hand out.
MaxSessions == 2
\* Pipeline items ever created (the id carries a timestamp, so ids are fresh).
MaxItems == 2
\* Length of the method log kept in SpecItem.
MaxLog == 3
\* Length to which the history log may grow in the model.
MaxHist == 1
\* External tool failures (tmux, gh) a run may suffer.
MaxFaults == 1
\* Pull requests on the tracker: PR k has head branch issue-k.
MaxPr == 1
\* Issue numbers for which ports are allocated: 0..MaxPortIssue.
MaxPortIssue == 299
\* Command handlers that may run at once in SpecStore.
MaxHandlers == 2
\* The largest max_history a store is opened with in SpecArchive.
MaxKeep == 2
\* Items ever added to the store in SpecArchive.
MaxStored == 3

\* ------------------------------------------------------------ value sets
\* An absent Option<..> whose values are numbered (session, worktree, branch, PR).
None == 0
\* An absent Option<String> machine id.
NoMachine == "none"

Issues == 1 .. MaxIssue
MissingIssue == MaxIssue + 1
SessionNames == 1 .. MaxSessions
\* Support workers are named handy-support-{task}-{n}: one name per issue for the
\* one task type ("merge") the model spawns them for.
SupportName(n) == 0 - n
SupportNames == { SupportName(n) : n \in 1 .. MaxIssue }
\* spawn_agent names a session handy-issue-{n}-{timestamp} when it is given no name.
IssueSession(n) == MaxSessions + n
IssueSessions == { IssueSession(n) : n \in 1 .. MaxIssue }
\* ensure_master_session names its session handy-master.
MasterSession == MaxSessions + MaxIssue + 1
AllSessionNames == SessionNames \cup SupportNames \cup IssueSessions \cup {MasterSession}
PrNumbers == 1 .. MaxPr
Repos == {"o/a", "o/b"}
Machines == {"host-a", "host-b"}

\* PR states as the tracker adapter may spell them (pipeline.rs:190-192 reads both).
PrStates == {"open", "closed", "merged", "OPEN", "CLOSED", "MERGED"}
Lower(s) == CASE s = "OPEN" -> "open" [] s = "CLOSED" -> "closed" [] s = "MERGED" -> "merged" [] OTHER -> s
Upper(s) == CASE s = "open" -> "OPEN" [] s = "closed" -> "CLOSED" [] s = "merged" -> "MERGED" [] OTHER -> s

\* EpicState.active_epic when no epic is linked.
NoActiveEpic == [ linked |-> FALSE ]

PipelineStatuses == {"Queued", "InProgress", "PrPending", "PrReview", "Completed", "Skipped", "Failed"}
PrPipelineStatuses == {"None", "Draft", "Ready", "NeedsReview", "Approved", "Merged", "Closed"}

VARIABLES
    item,        \* SpecItem: the PipelineItem the methods are applied to
    log,         \* SpecItem: the methods applied so far, oldest first
    items,       \* PipelineState.items: id -> PipelineItem (persisted store)
    history,     \* PipelineState.history
    max_history, \* PipelineState.max_history
    inflight,    \* SpecStore: each running handler's position and the document it loaded
    nextId,      \* ids handed out so far
    prs,         \* remote pull requests: number -> "none" | "open" | "closed" | "merged"
    sessions,    \* tmux server: session name -> session record, or NoSession
    worktrees,   \* issue numbers whose worktree directory issue-n exists
    branches,    \* issue numbers whose branch issue-n exists
    containers,  \* the sandbox containers, by the name they carry
    faults,      \* external tool failures injected so far
    hostname,    \* what the machine reports as its hostname
    tracker,     \* the tracking repository's sub-issues, by issue number
    epicBody,    \* the lines of the epic issue's body
    activeEpic,  \* the persisted EpicState.active_epic
    reportedNew, \* history: the issues whose pull request a poll has reported as new
    last         \* the operation that produced the current state, with its result

itemVars == <<item, log>>
pipeVars == <<items, history, max_history, inflight, nextId, prs>>
sessVars == <<sessions, worktrees, branches, containers, hostname, faults>>
epicVars == <<tracker, epicBody, activeEpic, reportedNew>>
vars == <<item, log, items, history, max_history, inflight, nextId, prs, sessions, worktrees, branches,
          containers, hostname, faults, tracker, epicBody, activeEpic, reportedNew,
          last>>

\* ------------------------------------------------- pipeline.rs: PipelineItem
\* The fields id, tracking_repo, work_repo, issue_number and the lifecycle fields;
\* issue_title, issue_url, agent_type and created_at take no part in any transition.
\* Timestamps are modelled by whether they are set.
from_issue(id, issue_number, tracking_repo, work_repo) ==
    [ id |-> id, tracking_repo |-> tracking_repo, work_repo |-> work_repo,
      issue_number |-> issue_number,
      session_name |-> None, worktree_path |-> None, branch_name |-> None,
      machine_id |-> NoMachine, pr_number |-> None, pr_status |-> "None",
      status |-> "Queued", started_at |-> FALSE, completed_at |-> FALSE,
      error |-> FALSE ]

\* start_work without the status assignment.
start_work_keeps_status(it, session_name, worktree_path, branch_name, machine_id) ==
    [ it EXCEPT !.session_name = session_name, !.worktree_path = worktree_path,
                !.branch_name = branch_name, !.machine_id = machine_id,
                !.started_at = TRUE ]

start_work(it, session_name, worktree_path, branch_name, machine_id) ==
    [ it EXCEPT !.session_name = session_name, !.worktree_path = worktree_path,
                !.branch_name = branch_name, !.machine_id = machine_id,
                !.status = "InProgress", !.started_at = TRUE ]

\* link_pr's classification with a closed PR counted as merged.
link_pr_status_closed_as_merged(pr) ==
    IF pr.state = "merged" \/ pr.state = "closed" THEN "Merged"
    ELSE IF pr.is_draft THEN "Draft"
    ELSE "Ready"

link_pr_status(pr) ==
    IF pr.state = "merged" THEN "Merged"
    ELSE IF pr.state = "closed" THEN "Closed"
    ELSE IF pr.is_draft THEN "Draft"
    ELSE "Ready"

\* link_pr that always leaves the item in review.
link_pr_always_review(it, pr) ==
    [ it EXCEPT !.pr_number = pr.number, !.pr_status = link_pr_status(pr),
                !.status = "PrReview" ]

link_pr(it, pr) ==
    LET ps == link_pr_status(pr) IN
    [ it EXCEPT !.pr_number = pr.number, !.pr_status = ps,
                !.status = IF ps = "Merged" THEN "Completed" ELSE "PrReview" ]

\* The derivation with has-reviewers tested before approved.
derive_pr_status_reviewers_first(pr, has_reviewers, is_approved) ==
    IF pr.state = "merged" \/ pr.state = "MERGED" THEN "Merged"
    ELSE IF pr.state = "closed" \/ pr.state = "CLOSED" THEN "Closed"
    ELSE IF has_reviewers THEN "NeedsReview"
    ELSE IF is_approved THEN "Approved"
    ELSE IF pr.is_draft THEN "Draft"
    ELSE "Ready"

derive_pr_status(pr, has_reviewers, is_approved) ==
    IF pr.state = "merged" \/ pr.state = "MERGED" THEN "Merged"
    ELSE IF pr.state = "closed" \/ pr.state = "CLOSED" THEN "Closed"
    ELSE IF is_approved THEN "Approved"
    ELSE IF has_reviewers THEN "NeedsReview"
    ELSE IF pr.is_draft THEN "Draft"
    ELSE "Ready"

update_pr_status(it, pr, has_reviewers, is_approved) ==
    LET ps == derive_pr_status(pr, has_reviewers, is_approved) IN
    CASE ps = "Merged" -> [ it EXCEPT !.pr_status = ps, !.completed_at = TRUE,
                                      !.status = "Completed" ]
      [] ps = "Closed" -> [ it EXCEPT !.pr_status = ps, !.completed_at = TRUE,
                                      !.status = "Failed" ]
      [] OTHER         -> [ it EXCEPT !.pr_status = ps, !.status = "PrReview" ]

skip(it) == [ it EXCEPT !.status = "Skipped", !.completed_at = TRUE ]

fail(it) == [ it EXCEPT !.status = "Failed", !.error = TRUE, !.completed_at = TRUE ]

is_active(it) == it.status \in {"InProgress", "PrPending", "PrReview"}

is_complete(it) == it.status \in {"Completed", "Skipped", "Failed"}

\* A pull request as the tracker adapter hands it over.
PrInputs(numbers) ==
    [ number : numbers, state : PrStates, is_draft : BOOLEAN ]

\* ------------------------------------------ operations/epic.rs: the epic body
\* Phases of the epic of the model.
MaxPhase == 3

\* The issue number of the epic the model orchestrates.
Epic == 5

Approaches == {"agent-assisted", "automated", "manual"}
BodyStatuses == {"not_started", "in_progress", "completed", "skipped", "ready"}

\* A body is the sequence of its lines. A line is told by how it starts (k), the
\* number it carries (n: phase number, percentage), its word (s: approach, status)
\* and the issue counts it shows (c of t).
Line(k, n, s, c, t) == [ k |-> k, n |-> n, s |-> s, c |-> c, t |-> t ]
TextLine == Line("text", 0, "", 0, 0)
PhasesHeader == Line("## Phases", 0, "", 0, 0)
PhaseHeader(n) == Line("### Phase", n, "", 0, 0)
ApproachLine(a) == Line("**Approach**:", 0, a, 0, 0)
StatusLine(s, c, t) == Line("**Status**:", 0, s, c, t)
ProgressHeader == Line("## Progress", 0, "", 0, 0)
ProgressLine(c, t, pct) == Line("progress", pct, "", c, t)
NotesHeader == Line("## Notes", 0, "", 0, 0)

RECURSIVE Flatten(_)
Flatten(ss) == IF ss = << >> THEN << >> ELSE Head(ss) \o Flatten(Tail(ss))

\* format_epic_body: title and goal, the phases with approach and status, the
\* progress section, the notes.
format_epic_body(approaches) ==
    <<TextLine, PhasesHeader>>
    \o Flatten([ i \in 1 .. Len(approaches) |->
                   <<PhaseHeader(i), TextLine, ApproachLine(approaches[i]),
                     StatusLine("not_started", 0, 0)>> ])
    \o <<ProgressHeader, Line("progress", 0, "TBD", 0, 0), NotesHeader, TextLine>>

\* The epic the specifications other than SpecEpicBody start from.
StandardApproaches == <<"agent-assisted", "manual", "automated">>
StandardBody == format_epic_body([ i \in 1 .. MaxPhase |-> StandardApproaches[((i - 1) % 3) + 1] ])

\* ------------------------------------------------------------- SpecItem
\* The public PipelineItem methods applied, in any order, to one item created by
\* from_issue. log records each call: its name, the PR state handed to it
\* ("-" for none), the status it left and whether completed_at was set then.
LogEntry(op, state, it) ==
    [ op |-> op, state |-> state, after |-> it.status, completed_at |-> it.completed_at ]

\* pipeline.rs default_max_history()
default_max_history == 100

\* No handler is between its load and its save.
Handlers == 1 .. MaxHandlers
Idle == [ pc |-> "idle" ]

InitStores ==
    /\ items = << >>
    /\ inflight = [ h \in Handlers |-> Idle ]
    /\ history = << >>
    /\ nextId = 0
    /\ prs = [ n \in PrNumbers |-> "none" ]
    /\ sessions = [ s \in AllSessionNames |-> [ exists |-> FALSE ] ]
    /\ worktrees = {}
    /\ branches = {}
    /\ containers = {}
    /\ faults = 0
    /\ hostname = "host-a"

InitLocal ==
    /\ InitStores
    /\ max_history = default_max_history
    /\ last = [ op |-> "init" ]

InitRest ==
    /\ InitLocal
    /\ tracker = << >>
    /\ epicBody = StandardBody
    /\ activeEpic = NoActiveEpic
    /\ reportedNew = {}

InitItem ==
    /\ item = from_issue(1, 1, "o/a", "o/a")
    /\ log = << >>
    /\ InitRest

ItemStep(op, state, it, detail) ==
    /\ Len(log) < MaxLog
    /\ item' = it
    /\ log' = Append(log, LogEntry(op, state, it))
    /\ last' = detail
    /\ UNCHANGED <<epicVars, pipeVars, sessVars>>

ItemStartWork ==
    \E s \in SessionNames :
        ItemStep("start_work", "-",
                 start_work(item, s, item.issue_number, item.issue_number, hostname),
                 [ op |-> "start_work", before |-> item ])

ItemLinkPr ==
    \E pr \in PrInputs({1}) :
        ItemStep("link_pr", pr.state, link_pr(item, pr),
                 [ op |-> "link_pr", before |-> item, pr |-> pr ])

ItemUpdatePrStatus ==
    \E pr \in PrInputs({1}), has_reviewers \in BOOLEAN, is_approved \in BOOLEAN :
        ItemStep("update_pr_status", pr.state,
                 update_pr_status(item, pr, has_reviewers, is_approved),
                 [ op |-> "update_pr_status", before |-> item, pr |-> pr,
                   has_reviewers |-> has_reviewers, is_approved |-> is_approved ])

ItemSkip ==
    ItemStep("skip", "-", skip(item), [ op |-> "skip", before |-> item ])

ItemFail ==
    ItemStep("fail", "-", fail(item), [ op |-> "fail", before |-> item ])

NextItem ==
    \/ ItemStartWork
    \/ ItemLinkPr
    \/ ItemUpdatePrStatus
    \/ ItemSkip
    \/ ItemFail

SpecItem == InitItem /\ [][NextItem]_vars

\* ------------------------------------------------ tmux.rs: session provider
\* A session of the tmux server: whether a non-shell process runs in its pane
\* (check_session_has_active_process) and the HANDY_* environment variables
\* written so far. An unset variable holds NoEnv / None / FALSE.
NoEnv == "unset"
NoSession == [ exists |-> FALSE ]
AgentTypes == {"claude", "bogus"}
KnownAgentTypes == {"claude", "aider", "codex", "openai", "gemini", "ollama", "local", "manual"}

EmptyEnv ==
    [ agent_type |-> NoEnv, machine_id |-> NoEnv, started_at |-> FALSE,
      issue_ref |-> None, repo |-> NoEnv, worktree |-> None ]

\* create_session writes the variables in this order (tmux.rs:301-313); a failed
\* set-environment call, or the death of the process, leaves the first k written.
EnvKeys == <<"agent_type", "machine_id", "started_at", "issue_ref", "repo", "worktree">>

RECURSIVE EnvWritten(_, _)
EnvWritten(meta, k) ==
    IF k = 0 THEN EmptyEnv
    ELSE [ EnvWritten(meta, k - 1) EXCEPT ![EnvKeys[k]] = meta[EnvKeys[k]] ]

get_machine_id == hostname

get_session_metadata_machine(env) ==
    IF env.machine_id = NoEnv THEN get_machine_id ELSE env.machine_id

\* get_session_metadata of an existing session: the stored variables, with the
\* defaults the code substitutes for the unset ones.
get_session_metadata(s) ==
    LET env == sessions[s].env IN
    [ session |-> s, issue_ref |-> env.issue_ref, repo |-> env.repo,
      worktree |-> env.worktree,
      agent_type |-> IF env.agent_type = NoEnv THEN "unknown" ELSE env.agent_type,
      machine_id |-> get_session_metadata_machine(env),
      started_at |-> TRUE ]

list_sessions == { s \in AllSessionNames : sessions[s].exists }

SessionStatus(s) == IF sessions[s].alive THEN "Running" ELSE "Stopped"

WorktreePathExists(w) == w /= None /\ w \in worktrees

\* The table with the worktree deciding first.
recommended_action_worktree_first(tmux_alive, worktree_exists) ==
    IF ~worktree_exists THEN "Cleanup"
    ELSE IF tmux_alive THEN "Resume"
    ELSE "Restart"

recommended_action(tmux_alive, worktree_exists) ==
    IF tmux_alive THEN "Resume"
    ELSE IF worktree_exists THEN "Restart"
    ELSE "Cleanup"

\* recover_sessions without the machine filter.
recover_takes_every_machine(metadata) == TRUE

\* Whether recover_sessions takes the session up: only sessions of this machine.
recover_takes(metadata) == metadata.machine_id = get_machine_id

\* recover_sessions: the RecoveredSession of every session it reports.
recover_sessions ==
    LET taken == { s \in list_sessions : recover_takes(get_session_metadata(s)) } IN
    [ s \in taken |->
        LET metadata == get_session_metadata(s)
            worktree_exists == WorktreePathExists(metadata.worktree)
            tmux_alive == SessionStatus(s) = "Running"
        IN [ metadata |-> metadata, tmux_alive |-> tmux_alive,
             worktree_exists |-> worktree_exists,
             recommended_action |-> recommended_action(tmux_alive, worktree_exists) ] ]

build_agent_command_ok(agent_type) == agent_type \in KnownAgentTypes

\* restart_agent: "ok" when the start command was sent, else the error.
restart_agent(s) ==
    LET metadata == get_session_metadata(s) IN
    IF metadata.repo = NoEnv THEN "no repository metadata"
    ELSE IF metadata.issue_ref = None THEN "no valid issue reference"
    ELSE IF ~build_agent_command_ok(metadata.agent_type) THEN "unknown agent type"
    ELSE "ok"

\* recover_all_sessions, were it to kill every Cleanup session it is given.
recover_all_results_cleans_always(auto_restart, auto_cleanup) ==
    LET rec == recover_sessions IN
    [ s \in DOMAIN rec |->
        LET a == rec[s].recommended_action IN
        CASE a = "Resume"  -> [ action |-> a, success |-> TRUE, did |-> "nothing" ]
          [] a = "Restart" ->
                IF auto_restart /\ restart_agent(s) = "ok"
                THEN [ action |-> a, success |-> TRUE, did |-> "restart" ]
                ELSE [ action |-> a, success |-> FALSE, did |-> "nothing" ]
          [] OTHER -> [ action |-> a, success |-> TRUE, did |-> "kill" ] ]

\* What recover_all_sessions does to each session recover_sessions reports.
recover_all_results(auto_restart, auto_cleanup) ==
    LET rec == recover_sessions IN
    [ s \in DOMAIN rec |->
        LET a == rec[s].recommended_action IN
        CASE a = "Resume"  -> [ action |-> a, success |-> TRUE, did |-> "nothing" ]
          [] a = "Restart" ->
                IF auto_restart
                THEN IF restart_agent(s) = "ok"
                     THEN [ action |-> a, success |-> TRUE, did |-> "restart" ]
                     ELSE [ action |-> a, success |-> FALSE, did |-> "nothing" ]
                ELSE [ action |-> a, success |-> FALSE, did |-> "nothing" ]
          [] OTHER ->
                IF auto_cleanup
                THEN [ action |-> a, success |-> TRUE, did |-> "kill" ]
                ELSE [ action |-> a, success |-> FALSE, did |-> "nothing" ] ]

\* The tmux server after the restarts and kills of recover_all_sessions.
SessionsAfter(results) ==
    [ s \in AllSessionNames |->
        IF s \in DOMAIN results /\ results[s].did = "kill" THEN NoSession
        ELSE IF s \in DOMAIN results /\ results[s].did = "restart"
             THEN [ sessions[s] EXCEPT !.alive = TRUE ]
        ELSE sessions[s] ]

\* ------------------------------------------------ docker.rs: port ranges
PORT_RANGE_BASE == 30000
PORT_RANGE_SIZE == 100
PortSlots == 100
U16Max == 65535

\* u16 arithmetic as a release build computes it.
U16(x) == x % (U16Max + 1)

PortRange(base, end) == [ base |-> base, end |-> end ]

\* allocate_port_range with the issue number itself as the slot.
allocate_port_range_slot_per_issue(issue_number) ==
    LET slot == U16(issue_number)
        base == U16(PORT_RANGE_BASE + U16(slot * PORT_RANGE_SIZE))
    IN PortRange(base, U16(U16(base + PORT_RANGE_SIZE) - 1))

allocate_port_range(issue_number) ==
    LET slot == U16(issue_number % PortSlots)
        base == U16(PORT_RANGE_BASE + U16(slot * PORT_RANGE_SIZE))
    IN PortRange(base, U16(U16(base + PORT_RANGE_SIZE) - 1))

\* remap_port_to_range with the container port added unreduced.
remap_port_to_range_unreduced(container_port, issue_number) ==
    U16(allocate_port_range(issue_number).base + container_port)

remap_port_to_range(container_port, issue_number) ==
    U16(allocate_port_range(issue_number).base + (container_port % PORT_RANGE_SIZE))

\* The container ports detect_project_ports may put in one list.
DetectedPorts == {1420, 3000, 4200, 5000, 5173, 5174, 8000, 8080, 8081, 19000, 19001, 24678}

\* orchestrator.rs detect_project_ports: the container ports of the project;
\* the worktrees of one repository hold the same project.
ProjectPorts == {3000}

\* The host ports bound with the container ports used as they are.
host_ports_as_is(n) == ProjectPorts

\* The host ports `docker run -p` binds for the container of issue n.
host_ports(n) == { remap_port_to_range(p, n) : p \in ProjectPorts }

\* docker run fails in the pane when a host port it binds is held by the
\* sandbox container of another issue.
port_clash(n, cts) ==
    \E c \in cts : c > 0 /\ c /= n /\ host_ports(c) \cap host_ports(n) /= {}

\* ------------------------------------------- orchestrator.rs: spawn, cleanup
\* A session name that lacks the handy- prefix create_session insists on.
BadName == 0

\* Where an external tool (tmux, gh) fails during a spawn; k counts the
\* environment variables written before a failed set-environment call.
Faults ==
    { [ at |-> a, k |-> 0 ] :
        a \in {"none", "get_issue", "new_session", "send_command", "add_comment", "update_labels"} }
    \cup { [ at |-> "set_env", k |-> k ] : k \in 0 .. Len(EnvKeys) - 1 }

SpawnConfigs ==
    [ repo : {"o/a"}, issue_number : Issues \cup {MissingIssue}, agent_type : AgentTypes,
      session_name : SessionNames \cup {BadName}, working_labels : BOOLEAN,
      use_sandbox : BOOLEAN ]

\* worktree::create_worktree refuses a name that a worktree or a branch already uses.
worktree_collides(name, wts, brs) == name \in wts \/ name \in brs

\* The create_worktree call with its error dropped.
create_worktree_unchecked(name, wts, brs) == "ok"

\* The create_worktree call of spawn_agent: its error is returned at once.
create_worktree(name, wts, brs) == IF worktree_collides(name, wts, brs) THEN "collision" ELSE "ok"

NothingCreated ==
    [ worktree |-> FALSE, session |-> FALSE, container |-> FALSE,
      comment |-> FALSE, labels |-> FALSE ]

SpawnOutcome(ok, err, ss, wt, br, ct, created) ==
    [ ok |-> ok, err |-> err, sessions |-> ss, worktrees |-> wt, branches |-> br,
      containers |-> ct, created |-> created ]

\* spawn_agent, step by step, from the sessions ss, worktrees wts, branches brs
\* and containers cts it finds; every `?` of the code is an early return that
\* keeps what the earlier steps created.
spawn_agent_in(ss, wts, brs, cts, config, docker, fault) ==
    LET n == config.issue_number
        name == config.session_name
        meta == [ agent_type |-> config.agent_type, machine_id |-> hostname,
                  started_at |-> TRUE, issue_ref |-> n, repo |-> config.repo,
                  worktree |-> n ]
        wt == wts \cup {n}
        br == brs \cup {n}
        c1 == [ NothingCreated EXCEPT !.worktree = TRUE ]
        c2 == [ c1 EXCEPT !.session = TRUE ]
        withEnv(k) == [ ss EXCEPT ![name] =
                          [ exists |-> TRUE, alive |-> FALSE, env |-> EnvWritten(meta, k) ] ]
        full == withEnv(Len(EnvKeys))
        is_sandboxed == config.use_sandbox /\ docker
        \* docker run --name handy-sandbox-n fails in the pane when the name is taken
        \* or a host port is
        runs == ~is_sandboxed \/ (n \notin cts /\ ~port_clash(n, cts))
        started == [ full EXCEPT ![name].alive = runs ]
        ct == IF is_sandboxed /\ ~port_clash(n, cts) THEN cts \cup {n} ELSE cts
        c3 == [ c2 EXCEPT !.container = is_sandboxed /\ runs ]
        c4 == [ c3 EXCEPT !.comment = TRUE ]
        c5 == [ c4 EXCEPT !.labels = config.working_labels ]
    IN
    IF fault.at = "get_issue"
    THEN SpawnOutcome(FALSE, "tracker error", ss, wts, brs, cts, NothingCreated)
    ELSE IF n = MissingIssue
    THEN SpawnOutcome(FALSE, "issue not found", ss, wts, brs, cts, NothingCreated)
    ELSE IF create_worktree(n, wts, brs) /= "ok"
    THEN SpawnOutcome(FALSE, "collision", ss, wts, brs, cts, NothingCreated)
    ELSE IF name = BadName
    THEN SpawnOutcome(FALSE, "bad session name", ss, wt, br, cts, c1)
    ELSE IF ss[name].exists
    THEN SpawnOutcome(FALSE, "session exists", ss, wt, br, cts, c1)
    ELSE IF fault.at = "new_session"
    THEN SpawnOutcome(FALSE, "tmux error", ss, wt, br, cts, c1)
    ELSE IF fault.at = "set_env"
    THEN SpawnOutcome(FALSE, "set-environment failed", withEnv(fault.k), wt, br, cts, c2)
    ELSE IF ~build_agent_command_ok(config.agent_type)
    THEN SpawnOutcome(FALSE, "unknown agent type", full, wt, br, cts, c2)
    ELSE IF fault.at = "send_command"
    THEN SpawnOutcome(FALSE, "tmux error", full, wt, br, cts, c2)
    ELSE IF fault.at = "add_comment"
    THEN SpawnOutcome(FALSE, "comment failed", started, wt, br, ct, c3)
    ELSE IF config.working_labels /\ fault.at = "update_labels"
    THEN SpawnOutcome(FALSE, "labels failed", started, wt, br, ct, c4)
    ELSE SpawnOutcome(TRUE, "", started, wt, br, ct, c5)

spawn_agent(config, docker, fault) ==
    spawn_agent_in(sessions, worktrees, branches, containers, config, docker, fault)

SpawnStep(config, docker, fault) ==
    /\ fault.at /= "none" => faults < MaxFaults
    /\ LET out == spawn_agent(config, docker, fault) IN
        /\ faults' = IF fault.at = "none" THEN faults ELSE faults + 1
        /\ sessions' = out.sessions
        /\ worktrees' = out.worktrees
        /\ branches' = out.branches
        /\ containers' = out.containers
        /\ last' = [ op |-> "spawn_agent", issue |-> config.issue_number,
                     ok |-> out.ok, err |-> out.err, created |-> out.created ]
        /\ UNCHANGED <<epicVars, itemVars, pipeVars, hostname>>

\* The spawn_agent command. Docker is probed only when the sandbox is asked for.
SpawnAgent ==
    \E fault \in Faults, config \in SpawnConfigs :
        /\ \E docker \in (IF config.use_sandbox THEN BOOLEAN ELSE {TRUE}) :
              SpawnStep(config, docker, fault)

\* cleanup_agent: kill the session, then remove the worktree its metadata names.
CleanupStep(s, remove_worktree, delete_branch) ==
    /\ sessions[s].exists
    /\ LET w == get_session_metadata(s).worktree
           removes == remove_worktree /\ w /= None /\ w \in worktrees
       IN /\ sessions' = [ sessions EXCEPT ![s] = NoSession ]
          /\ worktrees' = IF removes THEN worktrees \ {w} ELSE worktrees
          /\ branches' = IF removes /\ delete_branch THEN branches \ {w} ELSE branches
          /\ last' = [ op |-> "cleanup_agent", session |-> s,
                       ok |-> (~remove_worktree \/ w = None \/ w \in worktrees) ]
    /\ UNCHANGED <<epicVars, itemVars, pipeVars, containers, hostname, faults>>

CleanupAgent ==
    \E s \in AllSessionNames, remove_worktree \in BOOLEAN, delete_branch \in BOOLEAN :
        CleanupStep(s, remove_worktree, delete_branch)

\* recover_sessions (read only): the classification is the result.
RecoverSessions ==
    /\ last' = [ op |-> "recover_sessions", recovered |-> recover_sessions ]
    /\ UNCHANGED <<epicVars, itemVars, pipeVars, sessVars>>

RecoverAllSessions ==
    \E auto_restart \in BOOLEAN, auto_cleanup \in BOOLEAN :
        LET results == recover_all_results(auto_restart, auto_cleanup) IN
        /\ sessions' = SessionsAfter(results)
        /\ last' = [ op |-> "recover_all_sessions", auto_restart |-> auto_restart,
                     auto_cleanup |-> auto_cleanup, results |-> results ]
        /\ UNCHANGED <<epicVars, itemVars, pipeVars, worktrees, branches, containers, hostname,
                       faults>>

\* ---------------------------------------------------------- the environment
\* The agent process in a pane exits, leaving the shell.
AgentExit ==
    \E s \in AllSessionNames :
        /\ sessions[s].exists /\ sessions[s].alive
        /\ sessions' = [ sessions EXCEPT ![s].alive = FALSE ]
        /\ last' = [ op |-> "agent_exit", session |-> s ]
        /\ UNCHANGED <<epicVars, itemVars, pipeVars, worktrees, branches, containers, hostname,
                       faults>>

\* A worktree directory is removed (remove_git_worktree, or by hand).
RemoveWorktree ==
    \E n \in worktrees :
        /\ worktrees' = worktrees \ {n}
        /\ last' = [ op |-> "remove_worktree", issue |-> n ]
        /\ UNCHANGED <<epicVars, itemVars, pipeVars, sessions, branches, containers, hostname,
                       faults>>

\* The machine comes up under another hostname.
RenameHost ==
    \E h \in Machines \ {hostname} :
        /\ hostname' = h
        /\ last' = [ op |-> "rename_host" ]
        /\ UNCHANGED <<epicVars, itemVars, pipeVars, sessions, worktrees, branches, containers,
                       faults>>

Init ==
    /\ item = from_issue(1, 1, "o/a", "o/a")
    /\ log = << >>
    /\ InitRest

Next ==
    \/ SpawnAgent
    \/ CleanupAgent
    \/ AgentExit

Spec == Init /\ [][Next]_vars

\* The spawns that leave sessions for recovery to find: direct mode, no labels,
\* complete or cut short by a failed set-environment call.
RecoverySpawn ==
    \E fault \in { f \in Faults : f.at \in {"none", "set_env"} },
       config \in { c \in SpawnConfigs : ~c.use_sandbox /\ ~c.working_labels
                                          /\ c.issue_number \in Issues
                                          /\ c.session_name \in SessionNames } :
        SpawnStep(config, TRUE, fault)

NextRecovery ==
    \/ RecoverySpawn
    \/ RecoverSessions
    \/ RecoverAllSessions
    \/ AgentExit
    \/ RemoveWorktree
    \/ RenameHost

SpecRecovery == Init /\ [][NextRecovery]_vars

\* ------------------------------------------------ tmux.rs: the master session
\* ensure_master_session: the session is made with new-session when the listing
\* does not show it, and carries the agent type "master", the machine id and
\* the start time; it has no issue, repository or worktree.
ensure_master_session ==
    IF MasterSession \in list_sessions
    THEN [ created |-> FALSE, sessions |-> sessions ]
    ELSE [ created |-> TRUE,
           sessions |-> [ sessions EXCEPT ![MasterSession] =
                            [ exists |-> TRUE, alive |-> FALSE,
                              env |-> [ EmptyEnv EXCEPT !.agent_type = "master",
                                                        !.machine_id = get_machine_id,
                                                        !.started_at = TRUE ] ] ] ]

EnsureMasterSession ==
    \E r \in { ensure_master_session } :
        /\ sessions' = r.sessions
        /\ last' = [ op |-> "ensure_master_session", created |-> r.created ]
        /\ UNCHANGED <<epicVars, itemVars, pipeVars, worktrees, branches, containers, hostname,
                       faults>>

\* A background task is started in the pane of the master session.
MasterTaskStarts ==
    /\ sessions[MasterSession].exists /\ ~sessions[MasterSession].alive
    /\ sessions' = [ sessions EXCEPT ![MasterSession].alive = TRUE ]
    /\ last' = [ op |-> "master_task" ]
    /\ UNCHANGED <<epicVars, itemVars, pipeVars, worktrees, branches, containers, hostname,
                   faults>>

\* The spawns beside the master session: direct mode, nothing failing.
MasterSideSpawn ==
    \E config \in { c \in SpawnConfigs : ~c.use_sandbox /\ ~c.working_labels
                                          /\ c.agent_type = "claude"
                                          /\ c.issue_number \in Issues
                                          /\ c.session_name \in SessionNames } :
        SpawnStep(config, TRUE, [ at |-> "none", k |-> 0 ])

NextMaster ==
    \/ EnsureMasterSession
    \/ MasterTaskStarts
    \/ MasterSideSpawn
    \/ AgentExit
    \/ RemoveWorktree
    \/ RecoverAllSessions

SpecMaster == Init /\ [][NextMaster]_vars

\* ------------------------------- agent_lifecycle.rs: support workers
\* Containers are named by issue: handy-sandbox-n and handy-support-sandbox-n.
SandboxContainer(n) == n
SupportContainer(n) == 0 - n

\* docker.rs container_exists_for_issue: the sandbox name is probed first.
container_exists_for_issue(n) ==
    IF SandboxContainer(n) \in containers THEN SandboxContainer(n)
    ELSE IF SupportContainer(n) \in containers THEN SupportContainer(n)
    ELSE None

\* tmux.rs create_session: the error, or "ok", and the server it leaves.
create_session(name, meta, fault) ==
    LET withEnv(k) == [ sessions EXCEPT ![name] =
                          [ exists |-> TRUE, alive |-> FALSE, env |-> EnvWritten(meta, k) ] ]
    IN IF sessions[name].exists THEN [ err |-> "session exists", sessions |-> sessions ]
       ELSE IF fault.at = "new_session" THEN [ err |-> "tmux error", sessions |-> sessions ]
       ELSE IF fault.at = "set_env"
       THEN [ err |-> "set-environment failed", sessions |-> withEnv(fault.k) ]
       ELSE [ err |-> "ok", sessions |-> withEnv(Len(EnvKeys)) ]

SupportWorkerConfigs ==
    [ repo : {"o/a"}, issue_number : Issues, task_type : {"merge"}, sandboxed : BOOLEAN,
      has_worktree_path : BOOLEAN ]

SupportOutcome(ok, ss, ct) == [ ok |-> ok, sessions |-> ss, containers |-> ct ]

\* spawn_support_worker: its own session for the issue, without looking at the
\* sessions that already refer to the issue.
spawn_support_worker(config, fault) ==
    LET n == config.issue_number
        name == SupportName(n)
        meta == [ agent_type |-> "support-merge", machine_id |-> hostname,
                  started_at |-> TRUE, issue_ref |-> n, repo |-> config.repo,
                  worktree |-> IF config.has_worktree_path THEN n ELSE None ]
        made == create_session(name, meta, fault)
        existing == container_exists_for_issue(n)
        cleared == IF config.sandboxed /\ existing /= None
                   THEN containers \ {existing} ELSE containers
        runs == ~config.sandboxed \/ SupportContainer(n) \notin cleared
        ct == IF config.sandboxed THEN cleared \cup {SupportContainer(n)} ELSE cleared
    IN
    IF config.sandboxed /\ ~config.has_worktree_path
    THEN SupportOutcome(FALSE, sessions, containers)
    ELSE IF made.err /= "ok"
    THEN SupportOutcome(FALSE, made.sessions, containers)
    ELSE IF fault.at = "send_command"
    THEN SupportOutcome(FALSE, made.sessions, cleared)
    ELSE SupportOutcome(TRUE, [ made.sessions EXCEPT ![name].alive = runs ], ct)

SupportStep(config, fault) ==
    /\ fault.at /= "none" => faults < MaxFaults
    /\ LET out == spawn_support_worker(config, fault) IN
        /\ faults' = IF fault.at = "none" THEN faults ELSE faults + 1
        /\ sessions' = out.sessions
        /\ containers' = out.containers
        /\ last' = [ op |-> "spawn_support_worker", issue |-> config.issue_number,
                     ok |-> out.ok ]
        /\ UNCHANGED <<epicVars, itemVars, pipeVars, worktrees, branches, hostname>>

SpawnSupportWorker ==
    \E config \in SupportWorkerConfigs,
       fault \in { f \in Faults : f.at \in {"none", "new_session", "set_env", "send_command"} } :
        SupportStep(config, fault)

\* Support workers run unsandboxed beside the agents.
LifecycleSupport ==
    \E config \in { c \in SupportWorkerConfigs : ~c.sandboxed } :
        SupportStep(config, [ at |-> "none", k |-> 0 ])

\* Agents and support workers over their whole life: spawned, exited, recovered
\* and cleaned up.
LifecycleSpawn ==
    \E config \in { c \in SpawnConfigs : ~c.working_labels /\ ~c.use_sandbox
                                          /\ c.agent_type = "claude"
                                          /\ c.issue_number \in Issues
                                          /\ c.session_name \in SessionNames } :
        SpawnStep(config, TRUE, [ at |-> "none", k |-> 0 ])

NextLifecycle ==
    \/ LifecycleSpawn
    \/ LifecycleSupport
    \/ CleanupAgent
    \/ RecoverAllSessions
    \/ AgentExit

SpecLifecycle == Init /\ [][NextLifecycle]_vars

\* ----------------------------------------- pipeline.rs: PipelineState, aggregation

Without(f, id) == [ i \in DOMAIN f \ {id} |-> f[i] ]

\* The trimming loop removing the newest entry.
RECURSIVE trim_history_drops_newest(_)
trim_history_drops_newest(h) ==
    IF Len(h) > max_history THEN trim_history_drops_newest(SubSeq(h, 1, Len(h) - 1)) ELSE h

\* while self.history.len() > self.max_history { self.history.remove(0); }
RECURSIVE trim_history(_)
trim_history(h) == IF Len(h) > max_history THEN trim_history(Tail(h)) ELSE h

\* archive_item: the item leaves the active set; it is kept in history only
\* when it is complete.
archive_item(state, id) ==
    IF id \in DOMAIN state.items
    THEN [ items |-> Without(state.items, id),
           history |-> IF is_complete(state.items[id])
                       THEN trim_history(Append(state.history, state.items[id]))
                       ELSE state.history ]
    ELSE state

\* archive_completed, visiting the map in the iteration order `order`.
RECURSIVE archive_completed(_, _)
archive_completed(state, order) ==
    IF order = << >> THEN state
    ELSE LET id == Head(order)
             next == IF id \in DOMAIN state.items /\ is_complete(state.items[id])
                     THEN archive_item(state, id) ELSE state
         IN archive_completed(next, Tail(order))

\* The iteration orders a HashMap with these keys may have.
Orders(ids) ==
    { o \in [ 1 .. Cardinality(ids) -> ids ] :
        \A i, j \in 1 .. Cardinality(ids) : i /= j => o[i] /= o[j] }

\* orchestrator.rs list_agent_statuses: one AgentStatus per session, by name.
AgentStatusOf(s) ==
    LET m == get_session_metadata(s) IN
    [ session |-> s, issue_number |-> m.issue_ref, repo |-> m.repo,
      worktree |-> m.worktree, machine_id |-> m.machine_id ]

RECURSIVE SessionList(_)
SessionList(names) ==
    IF names = {} THEN << >>
    ELSE LET least == CHOOSE s \in names : \A t \in names : s <= t
         IN <<AgentStatusOf(least)>> \o SessionList(names \ {least})

list_agent_statuses == SessionList(list_sessions)

aggregate_matches(it, issue_number, repo) ==
    it.issue_number = issue_number /\ (it.tracking_repo = repo \/ it.work_repo = repo)

\* The status update that promotes every matched item.
aggregate_status_promotes_all(it) == "InProgress"

aggregate_status(it) == IF ~is_complete(it) THEN "InProgress" ELSE it.status

\* One round of the loop of aggregate_pipeline_state: the first item, in the
\* map's iteration order, that matches the session is refreshed.
aggregate_session(its, order, session, work_repo) ==
    IF session.issue_number = None THEN its
    ELSE LET repo == IF session.repo = NoEnv THEN work_repo ELSE session.repo
             hits == { i \in 1 .. Len(order) :
                         aggregate_matches(its[order[i]], session.issue_number, repo) }
         IN IF hits = {} THEN its
            ELSE LET id == order[CHOOSE i \in hits : \A j \in hits : i <= j]
                     it == its[id]
                 IN [ its EXCEPT ![id] =
                        [ it EXCEPT !.session_name = session.session,
                                    !.worktree_path = session.worktree,
                                    !.machine_id = session.machine_id,
                                    !.status = aggregate_status(it) ] ]

RECURSIVE aggregate_pipeline_state(_, _, _, _)
aggregate_pipeline_state(its, order, statuses, work_repo) ==
    IF statuses = << >> THEN its
    ELSE aggregate_pipeline_state(aggregate_session(its, order, Head(statuses), work_repo),
                                  order, Tail(statuses), work_repo)

\* ------------------------------------------------ the tracker's pull requests
\* What get_pr / get_pr_status / list_prs return about a pull request: its state in
\* either spelling, the draft flag and the review tallies; or a transport error.
FetchFail ==
    [ ok |-> FALSE, upper |-> FALSE, is_draft |-> FALSE, pending |-> 0,
      approved |-> 0, changes_requested |-> 0 ]

Fetches ==
    {FetchFail} \cup
    [ ok : {TRUE}, upper : BOOLEAN, is_draft : BOOLEAN, pending : {0},
      approved : 0 .. 1, changes_requested : {0} ]

FetchedPr(n, f) ==
    [ number |-> n, state |-> IF f.upper THEN Upper(prs[n]) ELSE prs[n],
      is_draft |-> f.is_draft ]

\* sync_pr_status: the review tallies decide has_reviewers and is_approved.
sync_pr_status(it, f) ==
    LET has_reviewers == f.pending > 0 \/ f.approved > 0 \/ f.changes_requested > 0
        is_approved == f.approved > 0 /\ f.changes_requested = 0
    IN update_pr_status(it, FetchedPr(it.pr_number, f), has_reviewers, is_approved)

\* detect_pr_for_item against the open pull requests: PR k has head branch issue-k.
detect_pr_for_item(it, open) ==
    IF it.branch_name /= None /\ it.branch_name \in open THEN it.branch_name ELSE None

\* ------------------------------------ orchestration.rs: the pipeline handlers
PipeStep(its, hist) ==
    /\ items' = its
    /\ history' = hist
    /\ UNCHANGED <<max_history, inflight>>
    /\ last' = [ op |-> "pipeline" ]

FreeName == CHOOSE s \in SessionNames : ~sessions[s].exists /\ \A t \in SessionNames : ~sessions[t].exists => s <= t

\* assign_issue_to_agent: fetch the issue, spawn (session name generated), then
\* record the item. A failed spawn records nothing but keeps what it created.
AssignIssueToAgent ==
    \E tracking_repo \in {"o/a"}, work_repo \in {"o/a"}, n \in Issues \cup {MissingIssue} :
        /\ nextId < MaxItems
        /\ \E s \in SessionNames : ~sessions[s].exists
        /\ IF n = MissingIssue
           THEN /\ PipeStep(items, history)
                /\ UNCHANGED <<epicVars, itemVars, nextId, prs, sessVars>>
           ELSE LET config == [ repo |-> work_repo, issue_number |-> n, agent_type |-> "claude",
                                session_name |-> FreeName, working_labels |-> FALSE,
                                use_sandbox |-> FALSE ]
                    out == spawn_agent(config, FALSE, [ at |-> "none", k |-> 0 ])
                    id == nextId + 1
                    it == start_work(from_issue(id, n, tracking_repo, work_repo),
                                     FreeName, n, n, hostname)
                IN /\ sessions' = out.sessions
                   /\ worktrees' = out.worktrees
                   /\ branches' = out.branches
                   /\ nextId' = IF out.ok THEN id ELSE nextId
                   /\ PipeStep(IF out.ok THEN (id :> it) @@ items ELSE items, history)
                   /\ UNCHANGED <<epicVars, itemVars, prs, containers, hostname, faults>>

\* skip_issue: a new item, skipped at once and carrying the reason if one is
\* given, goes straight to the history unless the label update fails.
SkipIssue ==
    \E repo \in {"o/a"}, n \in Issues, reason \in BOOLEAN, labels_ok \in BOOLEAN :
        /\ nextId < MaxItems
        /\ Len(history) < MaxHist
        /\ nextId' = nextId + 1
        /\ PipeStep(items,
                    IF labels_ok
                    THEN Append(history,
                                [ skip(from_issue(nextId + 1, n, repo, repo))
                                    EXCEPT !.error = reason ])
                    ELSE history)
        /\ UNCHANGED <<epicVars, itemVars, prs, sessVars>>

\* list_pipeline_items: aggregate, then write the refreshed fields back and save.
ListPipelineItems ==
    \E work_repo \in Repos \cup {""}, order \in Orders(DOMAIN items) :
        LET agg == aggregate_pipeline_state(items, order, list_agent_statuses, work_repo) IN
        /\ PipeStep([ id \in DOMAIN items |->
                        [ items[id] EXCEPT !.session_name = agg[id].session_name,
                                           !.worktree_path = agg[id].worktree_path,
                                           !.machine_id = agg[id].machine_id,
                                           !.status = agg[id].status ] ],
                    history)
        /\ UNCHANGED <<epicVars, itemVars, nextId, prs, sessVars>>

OpenPrs == { n \in PrNumbers : prs[n] = "open" }

\* detect_and_link_prs: every item without a PR whose branch has an open PR is linked.
DetectAndLinkPrs ==
    \E f \in Fetches :
        /\ PipeStep(IF f.ok
                    THEN [ id \in DOMAIN items |->
                            IF items[id].pr_number = None /\ items[id].branch_name /= None
                               /\ detect_pr_for_item(items[id], OpenPrs) /= None
                            THEN link_pr(items[id],
                                         FetchedPr(detect_pr_for_item(items[id], OpenPrs), f))
                            ELSE items[id] ]
                    ELSE items,
                    history)
        /\ UNCHANGED <<epicVars, itemVars, nextId, prs, sessVars>>

Synced(its, f) ==
    [ id \in DOMAIN its |->
        IF its[id].pr_number /= None /\ f.ok THEN sync_pr_status(its[id], f) ELSE its[id] ]

\* sync_all_pr_statuses: sync every item that has a PR, then archive_completed.
SyncAllPrStatuses ==
    \E f \in Fetches, order \in Orders(DOMAIN items) :
        LET after == archive_completed([ items |-> Synced(items, f), history |-> history ], order) IN
        /\ Len(after.history) <= MaxHist
        /\ PipeStep(after.items, after.history)
        /\ UNCHANGED <<epicVars, itemVars, nextId, prs, sessVars>>

UpdatePipelineItemPrStatus ==
    \E id \in DOMAIN items, f \in Fetches :
        /\ PipeStep(IF items[id].pr_number /= None /\ f.ok THEN [ items EXCEPT ![id] = sync_pr_status(items[id], f) ] ELSE items,
                    history)
        /\ UNCHANGED <<epicVars, itemVars, nextId, prs, sessVars>>

\* link_pr_to_pipeline_item (commands/devops.rs fetches the PR first).
LinkPrToPipelineItem ==
    \E id \in DOMAIN items, n \in PrNumbers, f \in Fetches :
        /\ PipeStep(IF f.ok /\ prs[n] /= "none"
                    THEN [ items EXCEPT ![id] = link_pr(items[id], FetchedPr(n, f)) ]
                    ELSE items,
                    history)
        /\ UNCHANGED <<epicVars, itemVars, nextId, prs, sessVars>>

ArchivePipelineItem ==
    \E id \in DOMAIN items :
        LET after == archive_item([ items |-> items, history |-> history ], id) IN
        /\ Len(after.history) <= MaxHist
        /\ PipeStep(after.items, after.history)
        /\ UNCHANGED <<epicVars, itemVars, nextId, prs, sessVars>>

RemovePipelineItem ==
    \E id \in DOMAIN items :
        /\ PipeStep(Without(items, id), history)
        /\ UNCHANGED <<epicVars, itemVars, nextId, prs, sessVars>>

\* A pull request is opened, merged, closed or reopened on the tracker.
PrChange ==
    \E n \in PrNumbers, to \in {"open", "merged", "closed"} :
        /\ \/ prs[n] \in {"none", "closed"} /\ to = "open"
           \/ prs[n] = "open" /\ to \in {"merged", "closed"}
        /\ prs' = [ prs EXCEPT ![n] = to ]
        /\ last' = [ op |-> "pipeline" ]
        /\ UNCHANGED <<epicVars, itemVars, items, history, max_history, inflight, nextId, sessVars>>

\* cleanup_agent asked to remove the worktree and its branch as well.
CleanupWithWorktree == \E s \in SessionNames : CleanupStep(s, TRUE, TRUE)

NextPipeline ==
    \/ AssignIssueToAgent
    \/ SkipIssue
    \/ ListPipelineItems
    \/ DetectAndLinkPrs
    \/ SyncAllPrStatuses
    \/ UpdatePipelineItemPrStatus
    \/ LinkPrToPipelineItem
    \/ ArchivePipelineItem
    \/ RemovePipelineItem
    \/ PrChange
    \/ CleanupWithWorktree

SpecPipeline == Init /\ [][NextPipeline]_vars

\* ------------------------------ operations/epic.rs: sub-issues on the tracker
\* A sub-issue as the tracker holds it: the epic and phase its body names
\* ("**Epic**: #e", "**Phase**: p"), its state and its labels. Its number is its
\* place in the tracker.
SubIssue(e, p) ==
    [ epic |-> e, phase |-> p, state |-> "open", labels |-> {"todo"} ]

RECURSIVE Digits(_)
Digits(n) == IF n < 10 THEN <<n>> ELSE Append(Digits(n \div 10), n % 10)

\* text.contains(format!("{}", n)) where text holds the number m up to the end
\* of its line: true when the digits of n start the digits of m.
ContainsNumber(m, n) ==
    LET a == Digits(n)
        b == Digits(m)
    IN Len(a) <= Len(b) /\ SubSeq(b, 1, Len(a)) = a

\* body.contains("Epic**: #{epic_number}")
refs_epic(issue, epic_number) == ContainsNumber(issue.epic, epic_number)
\* body.contains("**Phase**: {phase_num}")
is_this_phase(issue, phase_num) == ContainsNumber(issue.phase, phase_num)
\* the "**Phase**:" line, split, trimmed and parsed
parsed_phase(issue) == issue.phase

IsTopSection(l) == l.k \in {"## Phases", "## Progress", "## Notes"}

\* extract_phases_from_body: the ### headings between "## Phases" and the next
\* top-level section, each with the approach that follows it (default manual).
\* A phase is numbered by its place; its name is what its heading carries.
RECURSIVE extract_phases_from_body(_, _, _)
extract_phases_from_body(lines, in_phases, acc) ==
    IF lines = << >> THEN acc
    ELSE LET l == Head(lines)
             rest == Tail(lines)
         IN IF l.k = "## Phases" THEN extract_phases_from_body(rest, TRUE, acc)
            ELSE IF ~in_phases THEN extract_phases_from_body(rest, FALSE, acc)
            ELSE IF IsTopSection(l) THEN acc
            ELSE IF l.k = "### Phase"
            THEN extract_phases_from_body(rest, TRUE,
                     Append(acc, [ name |-> l.n, approach |-> "manual" ]))
            ELSE IF l.k = "**Approach**:" /\ acc /= << >>
            THEN extract_phases_from_body(rest, TRUE,
                     [ acc EXCEPT ![Len(acc)].approach = l.s ])
            ELSE extract_phases_from_body(rest, TRUE, acc)

\* load_epic: the EpicInfo read from the epic issue (it carries the [EPIC] title).
load_epic(epic_number) ==
    [ epic_number |-> epic_number, repo |-> "o/a", work_repo |-> "o/a",
      phases |-> extract_phases_from_body(epicBody, FALSE, << >>) ]

\* create_sub_issues: one issue per config, in order, labelled todo; the first
\* create_issue that fails (fail_at, 0 for none) ends the batch with an error
\* and leaves the issues created before it.
RECURSIVE create_sub_issues(_, _, _, _, _)
create_sub_issues(epic_number, configs, fail_at, tr, created) ==
    IF configs = << >> THEN [ ok |-> TRUE, tracker |-> tr, created |-> created ]
    ELSE IF fail_at = Len(created) + 1 THEN [ ok |-> FALSE, tracker |-> tr, created |-> created ]
    ELSE LET config == Head(configs)
             issue_number == Len(tr) + 1
         IN create_sub_issues(epic_number, Tail(configs), fail_at,
                Append(tr, SubIssue(epic_number, config.phase)),
                Append(created, [ issue_number |-> issue_number, phase |-> config.phase,
                                  agent_type |-> config.agent_type ]))

\* --------------------------------- operations/orchestration.rs: orchestration
\* create_phase_issue: the one sub-issue of a phase; the approach picks the agent.
create_phase_issue(phase_num, phase, default_agent_type) ==
    [ phase |-> phase_num,
      agent_type |-> CASE phase.approach = "agent-assisted" -> default_agent_type
                       [] phase.approach = "automated" -> "automated"
                       [] OTHER -> "manual" ]

\* What can fail during one start_orchestration: the issue listing, the k-th
\* issue creation, the tracker at the first spawn.
EpicFaults ==
    { [ at |-> "none", k |-> 0 ], [ at |-> "list", k |-> 0 ] }
    \cup { [ at |-> "create", k |-> k ] : k \in 1 .. MaxIssue }
    \cup { [ at |-> "spawn", k |-> 1 ] }

MaxOf(S) == CHOOSE x \in S : \A y \in S : y <= x

\* existing_phase_issues: the issues of the listing that name the epic, keyed by
\* the phase they name; of two issues of one phase the later listed one stays.
\* The listing is taken in creation order; a failed listing is an empty one.
existing_phase_issue(epic_number, phase_num, listed) ==
    LET found == { i \in DOMAIN listed :
                     refs_epic(listed[i], epic_number) /\ parsed_phase(listed[i]) = phase_num }
    IN IF found = {} THEN None ELSE MaxOf(found)

EmptyPlan == [ configs |-> << >>, sub_issues |-> << >>, started |-> << >>, warnings |-> << >> ]

\* The loop of start_orchestration over phases_to_start.
RECURSIVE plan_phases(_, _, _, _, _)
plan_phases(phases_to_start, epic, default_agent_type, listed, acc) ==
    IF phases_to_start = << >> THEN acc
    ELSE LET phase_num == Head(phases_to_start)
             existing == existing_phase_issue(epic.epic_number, phase_num, listed)
             next(a) == plan_phases(Tail(phases_to_start), epic, default_agent_type, listed, a)
         IN IF phase_num > Len(epic.phases)
            THEN next([ acc EXCEPT !.warnings = Append(@, "no such phase") ])
            ELSE IF existing /= None
            THEN next([ acc EXCEPT !.warnings = Append(@, "already has issue"),
                                   !.started = Append(@, phase_num),
                                   !.sub_issues = Append(@, [ issue_number |-> existing,
                                                              phase |-> phase_num,
                                                              agent_type |-> default_agent_type ]) ])
            ELSE next([ acc EXCEPT !.configs = Append(@, create_phase_issue(phase_num,
                                                    epic.phases[phase_num], default_agent_type)),
                                   !.started = Append(@, phase_num) ])

\* spawn_agent_for_issue: spawn_agent with a generated session name, the staging
\* label, no sandbox; on success the issue carries the label.
spawn_agent_for_issue(st, sub, fault) ==
    LET config == [ repo |-> "o/a", issue_number |-> sub.issue_number,
                    agent_type |-> sub.agent_type,
                    session_name |-> IssueSession(sub.issue_number),
                    working_labels |-> TRUE, use_sandbox |-> FALSE ]
        out == spawn_agent_in(st.sessions, st.worktrees, st.branches, st.containers,
                              config, TRUE, fault)
    IN [ st EXCEPT !.sessions = out.sessions,
                   !.worktrees = out.worktrees,
                   !.branches = out.branches,
                   !.containers = out.containers,
                   !.tracker = IF out.created.labels
                               THEN [ @ EXCEPT ![sub.issue_number].labels = @ \cup {"staging"} ]
                               ELSE @,
                   !.attempted = Append(@, sub.issue_number),
                   !.spawned = IF out.ok THEN Append(@, sub.issue_number) ELSE @,
                   !.warnings = IF out.ok THEN @ ELSE Append(@, sub.issue_number) ]

\* The spawn loop, were it to end at the first spawn that fails.
RECURSIVE spawn_batch_stops_at_failure(_, _, _)
spawn_batch_stops_at_failure(subs, st, fault) ==
    IF subs = << >> \/ st.warnings /= << >> THEN st
    ELSE LET sub == Head(subs)
             k == Len(st.attempted) + 1
             f == IF fault.at = "spawn" /\ fault.k = k
                  THEN [ at |-> "get_issue", k |-> 0 ]
                  ELSE [ at |-> "none", k |-> 0 ]
         IN IF sub.agent_type = "manual"
            THEN spawn_batch_stops_at_failure(Tail(subs), st, fault)
            ELSE spawn_batch_stops_at_failure(Tail(subs), spawn_agent_for_issue(st, sub, f), fault)

\* The spawn loop of start_orchestration: every sub-issue of the result that is
\* not manual, in order; a failed spawn is a warning.
RECURSIVE spawn_batch(_, _, _)
spawn_batch(subs, st, fault) ==
    IF subs = << >> THEN st
    ELSE LET sub == Head(subs)
             k == Len(st.attempted) + 1
             f == IF fault.at = "spawn" /\ fault.k = k
                  THEN [ at |-> "get_issue", k |-> 0 ]
                  ELSE [ at |-> "none", k |-> 0 ]
         IN IF sub.agent_type = "manual"
            THEN spawn_batch(Tail(subs), st, fault)
            ELSE spawn_batch(Tail(subs), spawn_agent_for_issue(st, sub, f), fault)

\* The worktree base only matters when agents are to be spawned.
StartConfigs ==
    { c \in [ phases : { << >> } \cup { <<p>> : p \in 1 .. MaxPhase + 1 }
                                 \cup { <<p, 1>> : p \in 1 .. MaxPhase },
              auto_spawn_agents : BOOLEAN,
              default_agent_type : {"claude"},
              valid_worktree_base : BOOLEAN ] :
        c.auto_spawn_agents \/ c.valid_worktree_base }

\* The first half of start_orchestration: the listing (None for a failed one is
\* taken as empty), then the loop over the phases asked for, phase 1 by default.
planned(epic, config, fault) ==
    plan_phases(IF config.phases = << >> THEN <<1>> ELSE config.phases, epic,
                config.default_agent_type,
                IF fault.at = "list" THEN << >> ELSE tracker, EmptyPlan)

\* The second half of start_orchestration, once the sub-issues are created: the
\* result holds the created sub-issues when there are any, else the existing
\* ones; agents are spawned for them when asked for and the worktree base is a
\* git repository. A failed creation is the error of the call.
orchestrate(plan, made, config, fault) ==
    LET sub_issues == IF plan.configs = << >> THEN plan.sub_issues ELSE made.created
        st0 == [ sessions |-> sessions, worktrees |-> worktrees, branches |-> branches,
                 containers |-> containers, tracker |-> made.tracker,
                 attempted |-> << >>, spawned |-> << >>, warnings |-> << >> ]
    IN [ ok |-> made.ok,
         state |-> IF made.ok /\ config.auto_spawn_agents /\ config.valid_worktree_base
                   THEN spawn_batch(sub_issues, st0, fault)
                   ELSE st0,
         sub_issues |-> sub_issues,
         created |-> made.created,
         started |-> plan.started,
         phases |-> IF config.phases = << >> THEN <<1>> ELSE config.phases ]

create_planned(epic, plan, config, fault) ==
    orchestrate(plan,
                IF plan.configs = << >>
                THEN [ ok |-> TRUE, tracker |-> tracker, created |-> << >> ]
                ELSE create_sub_issues(epic.epic_number, plan.configs,
                                       IF fault.at = "create" THEN fault.k ELSE 0,
                                       tracker, << >>),
                config, fault)

\* start_orchestration: what it returns and the state it leaves.
start_orchestration(epic, config, fault) ==
    create_planned(epic, planned(epic, config, fault), config, fault)

RangeOf(seq) == { seq[i] : i \in DOMAIN seq }
IssueNumbers(subs) == [ i \in DOMAIN subs |-> subs[i].issue_number ]

StartStep(epic_number, config, fault) ==
    /\ fault.at /= "none" => faults < MaxFaults
    /\ Len(tracker) + Len(planned(load_epic(epic_number), config, fault).configs) <= MaxIssue
    /\ \E r \in { start_orchestration(load_epic(epic_number), config, fault) } :
        /\ faults' = IF fault.at = "none" THEN faults ELSE faults + 1
        /\ tracker' = r.state.tracker
        /\ sessions' = r.state.sessions
        /\ worktrees' = r.state.worktrees
        /\ branches' = r.state.branches
        /\ containers' = r.state.containers
        /\ last' = [ op |-> "start_orchestration", epic |-> epic_number, ok |-> r.ok,
                     phases |-> r.phases, listing_failed |-> fault.at = "list",
                     started_phases |-> r.started,
                     auto_spawn |-> config.auto_spawn_agents /\ config.valid_worktree_base,
                     created |-> r.created, sub_issues |-> r.sub_issues,
                     attempted |-> r.state.attempted, spawned |-> r.state.spawned,
                     warnings |-> r.state.warnings ]
        /\ UNCHANGED <<itemVars, pipeVars, hostname, epicBody, activeEpic, reportedNew>>

\* The start_orchestration command for the epic of the model.
StartOrchestration ==
    \E config \in StartConfigs, fault \in EpicFaults : StartStep(Epic, config, fault)

\* A sub-issue is closed on the tracker (its pull request merged, or by hand).
CloseSubIssue ==
    \E n \in DOMAIN tracker :
        /\ tracker[n].state = "open"
        /\ tracker' = [ tracker EXCEPT ![n].state = "closed" ]
        /\ last' = [ op |-> "close_issue", issue |-> n ]
        /\ UNCHANGED <<itemVars, pipeVars, sessVars, epicBody, activeEpic, reportedNew>>

\* ---------------------------------------- operations/epic.rs: epic recovery
\* Whether an agent works on the issue, were it read from the local tmux sessions.
has_agent_working_from_sessions(n, issue) ==
    \E s \in AllSessionNames : sessions[s].exists /\ sessions[s].env.issue_ref = n

\* issue.labels.iter().any(|l| l == "staging")
has_agent_working(n, issue) == "staging" \in issue.labels

\* The ExistingSubIssue of tracker issue n; the work repository of the model
\* holds no pull request for a sub-issue, so the lookup for an open one is empty.
ExistingSubIssue(n) ==
    [ issue_number |-> n, phase |-> parsed_phase(tracker[n]), state |-> tracker[n].state,
      labels |-> tracker[n].labels, has_agent_working |-> has_agent_working(n, tracker[n]),
      pr_number |-> None ]

\* The issues of the listing whose body names the epic, in listing order.
RECURSIVE sub_issues_of(_, _)
sub_issues_of(epic_number, n) ==
    IF n > Len(tracker) THEN << >>
    ELSE IF refs_epic(tracker[n], epic_number)
    THEN <<ExistingSubIssue(n)>> \o sub_issues_of(epic_number, n + 1)
    ELSE sub_issues_of(epic_number, n + 1)

\* The EpicRecoveryInfo over the epic and its sub-issues: the progress, the
\* phases without a sub-issue, the sub-issues ready for an agent or with one
\* at work.
recovery_info(epic, sub_issues, completed) ==
    [ ok |-> TRUE,
      epic |-> epic,
      epic_body |-> epicBody,
      sub_issues |-> sub_issues,
      progress |-> [ total |-> Len(sub_issues), completed |-> completed,
                     percentage |-> IF Len(sub_issues) > 0
                                    THEN (completed * 100) \div Len(sub_issues) ELSE 0,
                     remaining |-> Len(sub_issues) - completed ],
      phases_without_issues |->
          { p \in 1 .. Len(epic.phases) : \A i \in DOMAIN sub_issues : sub_issues[i].phase /= p },
      ready_for_agents |-> SelectSeq(sub_issues, LAMBDA i :
                               Lower(i.state) = "open" /\ "todo" \in i.labels /\ ~i.has_agent_working),
      in_progress |-> SelectSeq(sub_issues, LAMBDA i : i.has_agent_working) ]

count_closed(sub_issues) == Len(SelectSeq(sub_issues, LAMBDA i : Lower(i.state) = "closed"))

with_progress(epic, sub_issues) == recovery_info(epic, sub_issues, count_closed(sub_issues))

\* load_epic_for_recovery: the epic, its body, the sub-issues that name it and
\* what is derived from them. It fails when the tracker does.
load_epic_for_recovery(epic_number, tracker_ok) ==
    IF ~tracker_ok THEN [ ok |-> FALSE ]
    ELSE with_progress(load_epic(epic_number), sub_issues_of(epic_number, 1))

\* The load_epic_for_recovery command.
LoadEpicForRecovery ==
    \E tracker_ok \in BOOLEAN :
        /\ ~tracker_ok => faults < MaxFaults
        /\ faults' = IF tracker_ok THEN faults ELSE faults + 1
        /\ last' = [ op |-> "load_epic_for_recovery", tracker_ok |-> tracker_ok,
                     result |-> load_epic_for_recovery(Epic, tracker_ok) ]
        /\ UNCHANGED <<epicVars, itemVars, pipeVars, sessions, worktrees, branches,
                       containers, hostname>>

\* cleanup_agent for the session of a sub-issue, worktree and branch included.
CleanupSubIssueAgent == \E n \in Issues : CleanupStep(IssueSession(n), TRUE, TRUE)

NextEpic ==
    \/ StartOrchestration
    \/ CloseSubIssue
    \/ LoadEpicForRecovery
    \/ CleanupSubIssueAgent

SpecEpic == Init /\ [][NextEpic]_vars

\* -------------------------- operations/orchestration.rs: phase status and body
\* The status a "**Status**:" line spells, as the two readers of the body take
\* it: the text holds the word format_phase_status wrote. The reader of
\* operations/orchestration.rs knows Ready, the one of orchestration.rs does not.
status_of_text(s, knows_ready) ==
    CASE s = "completed" -> "completed"
      [] s = "ready" -> IF knows_ready THEN "ready" ELSE "not_started"
      [] s = "in_progress" -> "in_progress"
      [] s = "skipped" -> "skipped"
      [] OTHER -> "not_started"

PhaseKeys == 1 .. MaxPhase + 1
NoStatuses == [ p \in PhaseKeys |-> "absent" ]

\* extract_phase_statuses_from_body: line by line, the phase of the last
\* "### Phase N:" heading is current until a top-level section; a status line
\* sets the status of the current phase, a later one replaces it.
RECURSIVE extract_phase_statuses_from_body(_, _, _, _)
extract_phase_statuses_from_body(lines, current_phase, statuses, knows_ready) ==
    IF lines = << >> THEN statuses
    ELSE LET l == Head(lines)
             rest == Tail(lines)
         IN IF l.k = "### Phase"
            THEN extract_phase_statuses_from_body(rest, l.n, statuses, knows_ready)
            ELSE IF l.k = "**Status**:" /\ current_phase /= None
            THEN extract_phase_statuses_from_body(rest, current_phase,
                     [ statuses EXCEPT ![current_phase] = status_of_text(l.s, knows_ready) ],
                     knows_ready)
            ELSE IF IsTopSection(l)
            THEN extract_phase_statuses_from_body(rest, None, statuses, knows_ready)
            ELSE extract_phase_statuses_from_body(rest, current_phase, statuses, knows_ready)

\* The resolution with the body's word first, the sub-issues second.
phase_status_body_first(total, completed, body_status) ==
    IF body_status /= "absent" THEN body_status
    ELSE IF total = 0 THEN "not_started"
    ELSE IF completed = total THEN "completed" ELSE "in_progress"

\* get_epic_phase_status, the status of one phase: from its sub-issues when it
\* has any, else what the body says, else not_started.
phase_status(total, completed, body_status) ==
    IF total > 0
    THEN IF completed = total THEN "completed" ELSE "in_progress"
    ELSE IF body_status /= "absent" THEN body_status ELSE "not_started"

\* The issues get_epic_phase_status counts for a phase.
phase_issues(epic_number, phase_num) ==
    { n \in DOMAIN tracker :
        refs_epic(tracker[n], epic_number) /\ is_this_phase(tracker[n], phase_num) }

PhaseStatusOf(epic_number, phases, phase_num, issues, body_statuses) ==
    [ phase_number |-> phase_num,
      phase_name |-> phases[phase_num].name,
      total_issues |-> Cardinality(issues),
      completed_issues |-> Cardinality({ n \in issues : tracker[n].state = "closed" }),
      in_progress_issues |-> Cardinality({ n \in issues : tracker[n].state = "open"
                                                          /\ "staging" \in tracker[n].labels }),
      status |-> phase_status(Cardinality(issues),
                              Cardinality({ n \in issues : tracker[n].state = "closed" }),
                              body_statuses[phase_num]) ]

\* get_epic_phase_status over the phases the caller hands in.
get_epic_phase_status(epic_number, phases) ==
    [ phase_num \in 1 .. Len(phases) |->
        PhaseStatusOf(epic_number, phases, phase_num, phase_issues(epic_number, phase_num),
                      extract_phase_statuses_from_body(epicBody, None, NoStatuses, TRUE)) ]

\* set_active_epic_from_recovery, the status of one phase.
tracked_phase_status(phase_subs, body_status) ==
    IF phase_subs /= << >>
    THEN IF Len(SelectSeq(phase_subs, LAMBDA x : x.state = "closed")) = Len(phase_subs)
         THEN "completed"
         ELSE IF Len(SelectSeq(phase_subs, LAMBDA x : x.has_agent_working \/ x.state = "open")) > 0
         THEN "in_progress"
         ELSE "not_started"
    ELSE IF body_status /= "absent" THEN body_status ELSE "not_started"

TrackedPhase(phase_num, phase_subs, body_statuses) ==
    [ phase_number |-> phase_num,
      status |-> tracked_phase_status(phase_subs, body_statuses[phase_num]),
      sub_issues |-> IssueNumbers(phase_subs),
      completed_count |-> Len(SelectSeq(phase_subs, LAMBDA x : x.state = "closed")),
      total_count |-> Len(phase_subs) ]

\* set_active_epic_from_recovery: the tracked phases of the active epic it stores.
set_active_epic_from_recovery(recovery) ==
    [ phase_num \in 1 .. Len(recovery.epic.phases) |->
        TrackedPhase(phase_num,
                     SelectSeq(recovery.sub_issues, LAMBDA x : x.phase = phase_num),
                     extract_phase_statuses_from_body(recovery.epic_body, None, NoStatuses, FALSE)) ]

\* format_phase_status: the status line written for a phase; a status it does
\* not know is written as not started, the counts only when there are issues.
format_phase_status(status) ==
    StatusLine(IF status.status \in BodyStatuses THEN status.status ELSE "not_started",
               IF status.total_issues > 0 THEN status.completed_issues ELSE 0,
               status.total_issues)

FirstAt(lines, from, Test(_)) ==
    IF \E i \in from .. Len(lines) : Test(lines[i])
    THEN CHOOSE i \in from .. Len(lines) :
             Test(lines[i]) /\ \A j \in from .. i - 1 : ~Test(lines[j])
    ELSE None

\* One round of update_phases_in_body: find the heading of the phase, then the
\* first "**Status**:" from there on, and replace that line up to its end.
update_phase_in_body(body, status) ==
    LET phase_start == FirstAt(body, 1, LAMBDA l : l.k = "### Phase"
                                                   /\ l.n = status.phase_number
                                                   /\ l.n = status.phase_name)
        status_pos == IF phase_start = None THEN None
                      ELSE FirstAt(body, phase_start, LAMBDA l : l.k = "**Status**:")
    IN IF status_pos = None \/ status_pos = Len(body) THEN body
       ELSE [ body EXCEPT ![status_pos] = format_phase_status(status) ]

RECURSIVE update_phases_in_body(_, _)
update_phases_in_body(body, phase_statuses) ==
    IF phase_statuses = << >> THEN body
    ELSE update_phases_in_body(update_phase_in_body(body, Head(phase_statuses)),
                               Tail(phase_statuses))

\* update_progress_in_body: the line after the first "## Progress" is replaced,
\* when a line follows it.
update_progress_in_body(body, completed, total, percentage) ==
    LET progress_start == FirstAt(body, 1, LAMBDA l : l.k = "## Progress") IN
    IF progress_start = None \/ progress_start + 1 >= Len(body) THEN body
    ELSE [ body EXCEPT ![progress_start + 1] = ProgressLine(completed, total, percentage) ]

RECURSIVE SumOf(_)
SumOf(seq) == IF seq = << >> THEN 0 ELSE Head(seq) + SumOf(Tail(seq))

with_totals(body, total_issues, completed_issues) ==
    update_progress_in_body(body, completed_issues, total_issues,
                            IF total_issues > 0 THEN (completed_issues * 100) \div total_issues ELSE 0)

\* update_epic_phase_status_on_github: the body it writes back.
updated_body(body, phase_statuses) ==
    with_totals(update_phases_in_body(body, phase_statuses),
                SumOf([ i \in DOMAIN phase_statuses |-> phase_statuses[i].total_issues ]),
                SumOf([ i \in DOMAIN phase_statuses |-> phase_statuses[i].completed_issues ]))

\* The lists of phases handed to an update: all of them, or one.
Listings(seq) == { DOMAIN seq } \cup { {i} : i \in DOMAIN seq }
Listed(seq, S) == SelectSeq(seq, LAMBDA x : x.phase_number \in S)

\* The get_epic_phase_status command; the tracker may fail.
GetEpicPhaseStatus ==
    /\ last' = [ op |-> "get_epic_phase_status",
                 result |-> get_epic_phase_status(Epic, load_epic(Epic).phases) ]
    /\ UNCHANGED <<epicVars, itemVars, pipeVars, sessVars>>

\* sync_active_epic: load_epic_for_recovery, then set_active_epic_from_recovery.
SyncActiveEpic ==
    /\ last' = [ op |-> "set_active_epic_from_recovery",
                 phases |-> set_active_epic_from_recovery(load_epic_for_recovery(Epic, TRUE)) ]
    /\ UNCHANGED <<epicVars, itemVars, pipeVars, sessVars>>

\* update_epic_phase_status_on_github for some of the phases, with the statuses
\* get_epic_phase_status gives them.
UpdateEpicPhaseStatusOnGithub ==
    \E statuses \in { get_epic_phase_status(Epic, load_epic(Epic).phases) } :
      \E listed \in Listings(statuses) :
        /\ epicBody' = updated_body(epicBody, Listed(statuses, listed))
        /\ last' = [ op |-> "update_epic_phase_status_on_github", listed |-> listed ]
        /\ UNCHANGED <<itemVars, pipeVars, sessVars, tracker, activeEpic, reportedNew>>

\* mark_phase_status: one phase, no issue counts, the status the caller names;
\* an error when the body has no heading for the phase.
MarkPhaseStatus ==
    \E phase_number \in 1 .. MaxPhase, new_status \in {"completed"} :
        /\ epicBody' = IF \E i \in DOMAIN epicBody : epicBody[i] = PhaseHeader(phase_number)
                       THEN update_phases_in_body(epicBody,
                                << [ phase_number |-> phase_number, phase_name |-> phase_number,
                                     total_issues |-> 0, completed_issues |-> 0,
                                     in_progress_issues |-> 0, status |-> new_status ] >>)
                       ELSE epicBody
        /\ last' = [ op |-> "mark_phase_status", listed |-> {phase_number} ]
        /\ UNCHANGED <<itemVars, pipeVars, sessVars, tracker, activeEpic, reportedNew>>

\* Epic bodies as they are found on the tracker: written by format_epic_body,
\* then edited by hand, so that a phase may have lost its status line.
BodyWith(shape) ==
    <<TextLine, PhasesHeader>>
    \o Flatten([ i \in 1 .. MaxPhase |->
                   <<PhaseHeader(i), TextLine, ApproachLine(StandardApproaches[((i - 1) % 3) + 1])>>
                   \o (IF shape[i] = "none" THEN << >> ELSE <<StatusLine(shape[i], 0, 0)>>) ])
    \o <<ProgressHeader, Line("progress", 0, "TBD", 0, 0), NotesHeader, TextLine>>

Bodies ==
    { BodyWith(shape) : shape \in { f \in [ 1 .. MaxPhase -> {"none", "not_started"} ] :
                                        Cardinality({ i \in 1 .. MaxPhase : f[i] = "none" }) <= 1 } }

InitEpicBody ==
    /\ item = from_issue(1, 1, "o/a", "o/a")
    /\ log = << >>
    /\ InitLocal
    /\ tracker = << >>
    /\ epicBody \in Bodies
    /\ activeEpic = NoActiveEpic
    /\ reportedNew = {}

\* start_orchestration for one phase, without agents.
StartPhase ==
    \E p \in 1 .. MaxPhase :
        StartStep(Epic, [ phases |-> <<p>>, auto_spawn_agents |-> FALSE,
                          default_agent_type |-> "claude", valid_worktree_base |-> TRUE ],
                  [ at |-> "none", k |-> 0 ])

NextEpicBody ==
    \/ StartPhase
    \/ CloseSubIssue
    \/ GetEpicPhaseStatus
    \/ SyncActiveEpic
    \/ UpdateEpicPhaseStatusOnGithub
    \/ MarkPhaseStatus

SpecEpicBody == InitEpicBody /\ [][NextEpicBody]_vars

\* ----------------------------------- orchestration.rs: the epic monitor's polls
\* The active epic as far as the polls read it: the issue numbers of its
\* tracked sub-issues and those of them whose pr_url is set.
\* set_active_epic_from_recovery stores every sub-issue with pr_url None.
active_epic_from_recovery(recovery) ==
    [ linked |-> TRUE,
      sub_issues |-> RangeOf(IssueNumbers(recovery.sub_issues)),
      with_pr_url |-> {} ]

\* check_sessions_for_prs: the sub-issues of the active epic that have a pr_url.
known_pr_issues(epic) == IF epic.linked THEN epic.with_pr_url ELSE {}

\* update_sub_issue_pr_url: the sub-issue of that number, if the active epic
\* has one, gets the pr_url.
update_sub_issue_pr_url(epic, issue_number) ==
    IF epic.linked /\ issue_number \in epic.sub_issues
    THEN [ epic EXCEPT !.with_pr_url = @ \cup {issue_number} ]
    ELSE epic

\* detect_pr_for_agent: the issue of the session and the pull request whose
\* head branch is issue-{n}, None when there is none.
detect_pr_for_agent(s) ==
    LET n == get_session_metadata(s).issue_ref IN
    [ session |-> s, issue_number |-> n,
      pr_number |-> IF n \in PrNumbers /\ prs[n] = "open" THEN n ELSE None ]

\* The sessions the poll looks at: those with an issue reference.
agent_sessions == { s \in list_sessions : get_session_metadata(s).issue_ref /= None }

\* The issue numbers one poll reports with is_new.
new_pr_issues(epic) ==
    { detect_pr_for_agent(s).issue_number :
        s \in { t \in agent_sessions : detect_pr_for_agent(t).pr_number /= None } }
    \ known_pr_issues(epic)

RECURSIVE with_pr_urls(_, _)
with_pr_urls(epic, new) ==
    IF new = {} THEN epic
    ELSE LET n == CHOOSE x \in new : TRUE
         IN with_pr_urls(update_sub_issue_pr_url(epic, n), new \ {n})

CheckSessionsForPrs ==
    \E new \in { new_pr_issues(activeEpic) } :
        /\ activeEpic' = with_pr_urls(activeEpic, new)
        /\ reportedNew' = reportedNew \cup new
        /\ last' = [ op |-> "check_sessions_for_prs", is_new |-> new,
                     polled |-> { get_session_metadata(s).issue_ref : s \in agent_sessions } ]
        /\ UNCHANGED <<itemVars, pipeVars, sessVars, tracker, epicBody>>

\* link_epic / sync_active_epic: load_epic_for_recovery, then
\* set_active_epic_from_recovery; sync_active_epic does nothing without an
\* active epic.
StoreActiveEpic ==
    \E sync \in BOOLEAN :
        /\ sync => activeEpic.linked
        /\ activeEpic' = active_epic_from_recovery(load_epic_for_recovery(Epic, TRUE))
        /\ last' = [ op |-> IF sync THEN "sync_active_epic" ELSE "link_epic" ]
        /\ UNCHANGED <<itemVars, pipeVars, sessVars, tracker, epicBody, reportedNew>>

\* The agent of an issue opens its pull request.
AgentOpensPr ==
    \E n \in PrNumbers :
        /\ prs[n] = "none"
        /\ \E s \in agent_sessions : get_session_metadata(s).issue_ref = n
        /\ prs' = [ prs EXCEPT ![n] = "open" ]
        /\ last' = [ op |-> "pr_opened", issue |-> n ]
        /\ UNCHANGED <<epicVars, itemVars, items, history, max_history, inflight, nextId,
                       sessVars>>

\* The agents the polls watch: direct mode, nothing failing.
PolledSpawn ==
    \E config \in { c \in SpawnConfigs : ~c.use_sandbox /\ ~c.working_labels
                                          /\ c.agent_type = "claude"
                                          /\ c.issue_number \in Issues
                                          /\ c.session_name \in SessionNames } :
        SpawnStep(config, TRUE, [ at |-> "none", k |-> 0 ])

NextPrPoll ==
    \/ StartPhase
    \/ StoreActiveEpic
    \/ PolledSpawn
    \/ AgentExit
    \/ AgentOpensPr
    \/ CheckSessionsForPrs

SpecPrPoll == Init /\ [][NextPrPoll]_vars

\* --------------------------- operations/orchestration.rs: orchestrations at once
\* start_orchestration as the two awaits it is made of, the listing of the
\* issues and the creation of the sub-issues, so that two invocations of the
\* asynchronous command interleave. Each is asked for one phase, without agents.
OnePhaseConfig(p) ==
    [ phases |-> <<p>>, auto_spawn_agents |-> FALSE, default_agent_type |-> "claude",
      valid_worktree_base |-> TRUE ]

\* Up to the answer of list_all_issues_async: the plan made from the listing.
ScanForSubIssues(h) ==
    \E p \in 1 .. MaxPhase :
        /\ inflight[h] = Idle
        /\ inflight' = [ inflight EXCEPT ![h] =
                           [ pc |-> "scanned", phase |-> p,
                             plan |-> planned(load_epic(Epic), OnePhaseConfig(p),
                                              [ at |-> "none", k |-> 0 ]),
                             overlapped |-> \E g \in Handlers \ {h} : inflight[g] /= Idle ] ]
        /\ last' = [ op |-> "list_all_issues", handler |-> h ]
        /\ UNCHANGED <<epicVars, itemVars, items, history, max_history, nextId, prs, sessVars>>

\* From there to the return: create_sub_issues for the planned phases.
CreatePlanned(h) ==
    /\ inflight[h].pc = "scanned"
    /\ Len(tracker) + Len(inflight[h].plan.configs) <= MaxIssue
    /\ \E r \in { create_sub_issues(Epic, inflight[h].plan.configs, 0, tracker, << >>) } :
        /\ tracker' = r.tracker
        /\ last' = [ op |-> "create_sub_issues", handler |-> h, phase |-> inflight[h].phase,
                     created |-> r.created, overlapped |-> inflight[h].overlapped ]
    /\ inflight' = [ inflight EXCEPT ![h] = Idle ]
    /\ UNCHANGED <<itemVars, items, history, max_history, nextId, prs, sessVars, epicBody,
                   activeEpic, reportedNew>>

OrchestrationsInterleaved == \E h \in Handlers : ScanForSubIssues(h) \/ CreatePlanned(h)

NextOrchestrations ==
    \/ OrchestrationsInterleaved
    \/ CloseSubIssue

SpecOrchestrations == Init /\ [][NextOrchestrations]_vars

\* -------------------------------------------- docker.rs: orphaned containers
ContainerIds ==
    { SandboxContainer(n) : n \in Issues } \cup { SupportContainer(n) : n \in Issues }

\* The issue number a container name carries behind its prefix.
container_issue(c) == IF c < 0 THEN 0 - c ELSE c

\* How `docker ps -a` ends: with the names, with "Cannot connect to the Docker
\* daemon", with another error status, or not started at all.
DockerPsOutcomes == {"ok", "daemon down", "failed", "not executable"}

\* The issue numbers of the sessions whose pane runs an agent.
active_issue_numbers_running(tmux_ok) ==
    IF tmux_ok
    THEN { get_session_metadata(s).issue_ref :
             s \in { t \in list_sessions : sessions[t].alive } } \ {None}
    ELSE {}

\* The issue numbers of the listed sessions; tmux::list_sessions().unwrap_or_default()
\* gives no session when the listing fails.
active_issue_numbers(tmux_ok) ==
    IF tmux_ok
    THEN { get_session_metadata(s).issue_ref : s \in list_sessions } \ {None}
    ELSE {}

OrphanCleanupResult(found, removed, removed_containers, errors) ==
    [ ok |-> TRUE, found |-> found, removed |-> removed,
      removed_containers |-> removed_containers, errors |-> errors ]

NothingToClean == OrphanCleanupResult(0, 0, {}, {})

OrphanCleanupError == [ ok |-> FALSE ]

\* cleanup_orphaned_containers over the containers cts; `docker rm -f` fails
\* for the containers in rm_fails.
cleanup_orphaned_containers(cts, docker, tmux_ok, rm_fails) ==
    IF docker = "not executable" THEN OrphanCleanupError
    ELSE IF docker = "daemon down" THEN NothingToClean
    ELSE IF docker = "failed" THEN OrphanCleanupError
    ELSE IF cts = {} THEN NothingToClean
    ELSE LET active == active_issue_numbers(tmux_ok)
             orphans == { c \in cts : container_issue(c) \notin active }
             gone == orphans \ rm_fails
         IN OrphanCleanupResult(Cardinality(orphans), Cardinality(gone), gone,
                                orphans \cap rm_fails)

CleanupOrphanedContainers ==
    \E docker \in DockerPsOutcomes, tmux_ok \in BOOLEAN, rm_fails \in SUBSET containers :
        /\ (docker /= "ok" \/ ~tmux_ok \/ rm_fails /= {}) => faults < MaxFaults
        /\ docker /= "ok" => tmux_ok /\ rm_fails = {}
        /\ \E r \in { cleanup_orphaned_containers(containers, docker, tmux_ok, rm_fails) } :
            /\ faults' = IF docker /= "ok" \/ ~tmux_ok \/ rm_fails /= {}
                         THEN faults + 1 ELSE faults
            /\ containers' = IF r.ok THEN containers \ r.removed_containers ELSE containers
            /\ last' = [ op |-> "cleanup_orphaned_containers", docker |-> docker,
                         tmux_ok |-> tmux_ok, rm_fails |-> rm_fails, result |-> r ]
            /\ UNCHANGED <<epicVars, itemVars, pipeVars, sessions, worktrees, branches,
                           hostname>>

\* Sandboxed agents and support workers, their sessions ending, and the pass.
\* The agent of issue n runs in the session of the same number; a spawn that
\* fails may leave its session without the issue reference.
SandboxSpawn ==
    \E fault \in { f \in Faults : f.at = "none" \/ (f.at = "set_env" /\ f.k = 3) },
       config \in { c \in SpawnConfigs : c.use_sandbox /\ ~c.working_labels
                                          /\ c.agent_type = "claude"
                                          /\ c.issue_number \in Issues
                                          /\ c.session_name = c.issue_number } :
        SpawnStep(config, TRUE, fault)

SandboxSupport ==
    \E config \in { c \in SupportWorkerConfigs : c.sandboxed /\ c.has_worktree_path },
       fault \in { f \in Faults : f.at \in {"none", "send_command"} } :
        SupportStep(config, fault)

CleanupSandboxAgent == \E s \in AllSessionNames : CleanupStep(s, TRUE, TRUE)

NextContainers ==
    \/ SandboxSpawn
    \/ SandboxSupport
    \/ CleanupSandboxAgent
    \/ AgentExit
    \/ CleanupOrphanedContainers

SpecContainers == Init /\ [][NextContainers]_vars

\* ------------------------------------------------ docker.rs: port allocation
\* The calls checked: every issue number up to MaxPortIssue with the usual
\* container ports, and every 16-bit container port with two issue numbers.
UsualPorts == {0, 80, 3000, 8080, U16Max}

PortCall(n, p) == [ op |-> "call", issue_number |-> n, container_port |-> p ]

InitPorts ==
    /\ item = from_issue(1, 1, "o/a", "o/a")
    /\ log = << >>
    /\ InitStores
    /\ max_history = default_max_history
    /\ tracker = << >>
    /\ epicBody = StandardBody
    /\ activeEpic = NoActiveEpic
    /\ reportedNew = {}
    /\ \/ \E n \in 0 .. MaxPortIssue, p \in UsualPorts : last = PortCall(n, p)
       \/ \E n \in {PortSlots - 1, MaxPortIssue}, p \in 0 .. U16Max : last = PortCall(n, p)

AllocatePortRange ==
    /\ last.op = "call"
    /\ last' = [ op |-> "allocate_port_range", issue_number |-> last.issue_number,
                 range |-> allocate_port_range(last.issue_number) ]
    /\ UNCHANGED <<epicVars, itemVars, pipeVars, sessVars>>

RemapPortToRange ==
    /\ last.op = "call"
    /\ last' = [ op |-> "remap_port_to_range", issue_number |-> last.issue_number,
                 container_port |-> last.container_port,
                 host_port |-> remap_port_to_range(last.container_port, last.issue_number) ]
    /\ UNCHANGED <<epicVars, itemVars, pipeVars, sessVars>>

NextPorts == AllocatePortRange \/ RemapPortToRange

SpecPorts == InitPorts /\ [][NextPorts]_vars

\* ------------------------------------------ pipeline.rs: PipelineState methods
\* A store opened with a small max_history, and the PipelineState methods
\* applied to it in any order.
InitArchive ==
    /\ item = from_issue(1, 1, "o/a", "o/a")
    /\ log = << >>
    /\ InitStores
    /\ max_history \in 0 .. MaxKeep
    /\ tracker = << >>
    /\ epicBody = StandardBody
    /\ activeEpic = NoActiveEpic
    /\ reportedNew = {}
    /\ last = [ op |-> "init" ]

StoreStep(state, op) ==
    /\ items' = state.items
    /\ history' = state.history
    /\ last' = op
    /\ UNCHANGED <<epicVars, itemVars, max_history, inflight, prs, sessVars>>

\* add_item with an item that started work.
AddItem ==
    /\ nextId < MaxStored
    /\ nextId' = nextId + 1
    /\ StoreStep([ items |-> ((nextId + 1) :>
                                start_work(from_issue(nextId + 1, 1, "o/a", "o/a"),
                                           1, 1, 1, hostname)) @@ items,
                   history |-> history ],
                 [ op |-> "add_item" ])

MergedPr == [ number |-> 1, state |-> "merged", is_draft |-> FALSE ]

\* get_item_mut, then the method that ends the item's work.
FinishItem ==
    \E id \in DOMAIN items, how \in {"skip", "fail", "link_pr"} :
        /\ ~is_complete(items[id])
        /\ nextId' = nextId
        /\ StoreStep([ items |-> [ items EXCEPT ![id] =
                                     CASE how = "skip" -> skip(items[id])
                                       [] how = "fail" -> fail(items[id])
                                       [] OTHER -> link_pr(items[id], MergedPr) ],
                       history |-> history ],
                     [ op |-> "get_item_mut" ])

ArchiveCompleted ==
    \E order \in Orders(DOMAIN items) :
        LET after == archive_completed([ items |-> items, history |-> history ], order) IN
        /\ nextId' = nextId
        /\ StoreStep(after,
                     [ op |-> "archive_completed",
                       swept |-> Cardinality(DOMAIN items \ DOMAIN after.items),
                       before |-> Len(history) ])

ArchiveItem ==
    \E id \in DOMAIN items :
        /\ nextId' = nextId
        /\ StoreStep(archive_item([ items |-> items, history |-> history ], id),
                     [ op |-> "archive_item", id |-> id, was |-> items[id].status ])

RemoveItem ==
    \E id \in DOMAIN items :
        /\ nextId' = nextId
        /\ StoreStep([ items |-> Without(items, id), history |-> history ],
                     [ op |-> "remove_item", id |-> id ])

NextArchive ==
    \/ AddItem
    \/ FinishItem
    \/ ArchiveCompleted
    \/ ArchiveItem
    \/ RemoveItem

SpecArchive == InitArchive /\ [][NextArchive]_vars

\* skip_issue over the store: the skipped item is pushed to the history of the
\* loaded document, which is saved.
SkipIssueStored ==
    /\ nextId < MaxStored
    /\ nextId' = nextId + 1
    /\ StoreStep([ items |-> items,
                   history |-> Append(history, skip(from_issue(nextId + 1, 1, "o/a", "o/a"))) ],
                 [ op |-> "skip_issue" ])

NextHistory ==
    \/ NextArchive
    \/ SkipIssueStored

SpecHistory == InitArchive /\ [][NextHistory]_vars

\* ------------------------- orchestration.rs: handlers sharing the pipeline store
\* load_pipeline_state and save_pipeline_state take no lock: a handler works on
\* the copy it loaded and saves the whole document. Each handler is two steps,
\* up to its load and from there to its save, and handlers interleave.
Document == [ items |-> items, history |-> history ]

\* The document a handler changes: one loaded afresh at the save.
loaded_copy_reloaded(h) == Document

\* The document a handler changes: the one it loaded.
loaded_copy(h) == inflight[h].copy

\* assign_issue_to_agent up to its load: the spawn, the new item, the load.
BeginAssign(h) ==
    \E n \in Issues :
        /\ inflight[h] = Idle
        /\ nextId < MaxItems
        /\ \E s \in SessionNames : ~sessions[s].exists
        /\ LET config == [ repo |-> "o/a", issue_number |-> n, agent_type |-> "claude",
                           session_name |-> FreeName, working_labels |-> FALSE,
                           use_sandbox |-> FALSE ]
               out == spawn_agent(config, FALSE, [ at |-> "none", k |-> 0 ])
               id == nextId + 1
               it == start_work(from_issue(id, n, "o/a", "o/a"), FreeName, n, n, hostname)
           IN /\ sessions' = out.sessions
              /\ worktrees' = out.worktrees
              /\ branches' = out.branches
              /\ nextId' = IF out.ok THEN id ELSE nextId
              /\ inflight' = IF out.ok
                             THEN [ inflight EXCEPT ![h] =
                                      [ pc |-> "loaded", kind |-> "assign", copy |-> Document,
                                        new |-> it ] ]
                             ELSE inflight
              /\ last' = [ op |-> "load", handler |-> h, kind |-> "assign", ok |-> out.ok ]
              /\ UNCHANGED <<epicVars, itemVars, items, history, max_history, prs,
                             containers, hostname, faults>>

\* list_pipeline_items up to the session listing that follows its load.
BeginList(h) ==
    /\ inflight[h] = Idle
    /\ inflight' = [ inflight EXCEPT ![h] =
                       [ pc |-> "loaded", kind |-> "list", copy |-> Document,
                         statuses |-> list_agent_statuses ] ]
    /\ last' = [ op |-> "load", handler |-> h, kind |-> "list", ok |-> TRUE ]
    /\ UNCHANGED <<epicVars, itemVars, items, history, max_history, nextId, prs, sessVars>>

\* sync_all_pr_statuses up to its load.
BeginSync(h) ==
    /\ inflight[h] = Idle
    /\ inflight' = [ inflight EXCEPT ![h] =
                       [ pc |-> "loaded", kind |-> "sync", copy |-> Document ] ]
    /\ last' = [ op |-> "load", handler |-> h, kind |-> "sync", ok |-> TRUE ]
    /\ UNCHANGED <<epicVars, itemVars, items, history, max_history, nextId, prs, sessVars>>

\* What the handler makes of its copy before it saves it.
Updated(h, copy, order, f) ==
    CASE inflight[h].kind = "assign" ->
            [ items |-> (inflight[h].new.id :> inflight[h].new) @@ copy.items,
              history |-> copy.history ]
      [] inflight[h].kind = "list" ->
            LET agg == aggregate_pipeline_state(copy.items, order, inflight[h].statuses, "o/a")
            IN [ items |-> [ id \in DOMAIN copy.items |->
                               [ copy.items[id] EXCEPT
                                   !.session_name = agg[id].session_name,
                                   !.worktree_path = agg[id].worktree_path,
                                   !.machine_id = agg[id].machine_id,
                                   !.status = agg[id].status ] ],
                 history |-> copy.history ]
      [] OTHER ->
            archive_completed([ items |-> Synced(copy.items, f), history |-> copy.history ],
                              order)

\* The rest of the handler: the change to the loaded document, and the save.
SaveStep(h) ==
    /\ inflight[h] /= Idle
    /\ \E order \in Orders(DOMAIN loaded_copy(h).items), f \in {FetchFail} :
          \E doc \in { Updated(h, loaded_copy(h), order, f) } :
              /\ items' = doc.items
              /\ history' = doc.history
    /\ inflight' = [ inflight EXCEPT ![h] = Idle ]
    /\ last' = [ op |-> "save", handler |-> h, kind |-> inflight[h].kind ]
    /\ UNCHANGED <<epicVars, itemVars, max_history, nextId, prs, sessVars>>

HandlerLoads == \E h \in Handlers : BeginAssign(h) \/ BeginList(h) \/ BeginSync(h)
HandlerSaves == \E h \in Handlers : SaveStep(h)

NextStore ==
    \/ HandlerLoads
    \/ HandlerSaves
    \/ AgentExit

SpecStore == Init /\ [][NextStore]_vars

\* ------------------------------------- orchestrator.rs: spawns running at once
\* spawn_agent as the blocking calls it is made of, so that two spawns for
\* different issues interleave: get_issue, create_worktree, create_session,
\* then the start of the agent with the comment and labels that follow it.
\* Each spawn has its own session name.
\* The claim is of two spawns: the two commands that run them.
Spawners == {1, 2}

InterleavedIssues == {1, 2, 1 + PortSlots}

InterleavedConfig(h, n, sandbox) ==
    [ repo |-> "o/a", issue_number |-> n, agent_type |-> "claude", session_name |-> h,
      working_labels |-> FALSE, use_sandbox |-> sandbox ]

NoFault == [ at |-> "none", k |-> 0 ]

InFlight(h) == inflight[h].pc \notin {"idle", "done"}

SpawnStepTo(h, pc) == [ inflight EXCEPT ![h].pc = pc ]

SpawnFails(h, err) ==
    [ inflight EXCEPT ![h] = [ pc |-> "done", config |-> inflight[h].config, ok |-> FALSE,
                               overlapped |-> inflight[h].overlapped ] ]

\* Step 1: github::get_issue.
SpawnFetch(h) ==
    \E n \in InterleavedIssues, sandbox \in BOOLEAN :
        /\ inflight[h] = Idle
        /\ \A g \in Handlers \ {h} :
              inflight[g] /= Idle => inflight[g].config.issue_number /= n
        /\ inflight' = [ inflight EXCEPT ![h] =
                           [ pc |-> "fetched", config |-> InterleavedConfig(h, n, sandbox),
                             overlapped |-> \E g \in Handlers \ {h} : InFlight(g) ] ]
        /\ last' = [ op |-> "get_issue", handler |-> h ]
        /\ UNCHANGED <<epicVars, itemVars, items, history, max_history, nextId, prs, sessVars>>

\* Step 3: worktree::create_worktree.
SpawnWorktree(h) ==
    /\ inflight[h].pc = "fetched"
    /\ LET n == inflight[h].config.issue_number
           made == create_worktree(n, worktrees, branches) = "ok"
       IN /\ worktrees' = IF made THEN worktrees \cup {n} ELSE worktrees
          /\ branches' = IF made THEN branches \cup {n} ELSE branches
          /\ inflight' = IF made THEN SpawnStepTo(h, "worktree") ELSE SpawnFails(h, "collision")
    /\ last' = [ op |-> "create_worktree", handler |-> h ]
    /\ UNCHANGED <<epicVars, itemVars, items, history, max_history, nextId, prs, sessions,
                   containers, hostname, faults>>

\* Step 5: tmux::create_session with the metadata.
SpawnSession(h) ==
    /\ inflight[h].pc = "worktree"
    /\ LET config == inflight[h].config
           n == config.issue_number
           meta == [ agent_type |-> config.agent_type, machine_id |-> hostname,
                     started_at |-> TRUE, issue_ref |-> n, repo |-> config.repo,
                     worktree |-> n ]
           made == create_session(config.session_name, meta, NoFault)
       IN /\ sessions' = made.sessions
          /\ inflight' = IF made.err = "ok" THEN SpawnStepTo(h, "session")
                         ELSE SpawnFails(h, made.err)
    /\ last' = [ op |-> "create_session", handler |-> h ]
    /\ UNCHANGED <<epicVars, itemVars, items, history, max_history, nextId, prs, worktrees,
                   branches, containers, hostname, faults>>

\* Steps 6 to 8: the agent is started in the pane, sandboxed or not; the
\* comment and the labels follow.
SpawnStart(h) ==
    /\ inflight[h].pc = "session"
    /\ LET config == inflight[h].config
           n == config.issue_number
           runs == ~config.use_sandbox
                   \/ (SandboxContainer(n) \notin containers /\ ~port_clash(n, containers))
       IN /\ sessions' = [ sessions EXCEPT ![config.session_name].alive = runs ]
          /\ containers' = IF config.use_sandbox /\ ~port_clash(n, containers)
                           THEN containers \cup {SandboxContainer(n)} ELSE containers
          /\ inflight' = [ inflight EXCEPT ![h] =
                             [ pc |-> "done", config |-> config, ok |-> TRUE,
                               overlapped |-> inflight[h].overlapped ] ]
    /\ last' = [ op |-> "spawn_agent", handler |-> h ]
    /\ UNCHANGED <<epicVars, itemVars, items, history, max_history, nextId, prs, worktrees,
                   branches, hostname, faults>>

SpawnsInterleaved ==
    \E h \in Spawners : SpawnFetch(h) \/ SpawnWorktree(h) \/ SpawnSession(h) \/ SpawnStart(h)

NextInterleave == SpawnsInterleaved

SpecInterleave == Init /\ [][NextInterleave]_vars

\* ================================================================== properties
\* ------------------------------------------------------- PipelineItem methods
\* C2: skip and fail move an item to Skipped / Failed from every non-terminal
\* status, and leave the status of an item that is already terminal unchanged.
SkipFailRespectTerminal ==
    last.op \in {"skip", "fail"} =>
        IF is_complete(last.before)
        THEN item.status = last.before.status
        ELSE item.status = (IF last.op = "skip" THEN "Skipped" ELSE "Failed")

EndToEndCalls ==
    /\ Len(log) >= 3
    /\ log[1].op = "start_work"
    /\ log[2].op = "link_pr" /\ log[2].state = "open"
    /\ log[3].op = "update_pr_status" /\ log[3].state = "merged"

\* C5: on a fresh item, start_work; link_pr(open); update_pr_status(merged) leave
\* the statuses InProgress, PrReview, Completed in turn, and completed_at is set
\* after the third call.
EndToEndLifecycle ==
    EndToEndCalls =>
        /\ log[1].after = "InProgress"
        /\ log[2].after = "PrReview"
        /\ log[3].after = "Completed"
        /\ log[3].completed_at

EndToEndDone ==
    /\ EndToEndCalls
    /\ Len(log) = 3
    /\ item.status = "Completed"
    /\ item.completed_at

\* C6: update_pr_status derives pr_status with the precedence merged, closed,
\* approved, has-reviewers, draft, ready, and sets the status to Completed for
\* merged, Failed for closed and PrReview for the other four, for all inputs.
UpdatePrStatusPrecedence ==
    last.op = "update_pr_status" =>
        LET merged == Lower(last.pr.state) = "merged"
            closed == Lower(last.pr.state) = "closed"
            expected ==
                CASE merged -> <<"Merged", "Completed">>
                  [] ~merged /\ closed -> <<"Closed", "Failed">>
                  [] ~merged /\ ~closed /\ last.is_approved -> <<"Approved", "PrReview">>
                  [] ~merged /\ ~closed /\ ~last.is_approved /\ last.has_reviewers ->
                        <<"NeedsReview", "PrReview">>
                  [] ~merged /\ ~closed /\ ~last.is_approved /\ ~last.has_reviewers
                     /\ last.pr.is_draft -> <<"Draft", "PrReview">>
                  [] OTHER -> <<"Ready", "PrReview">>
        IN item.pr_status = expected[1] /\ item.status = expected[2]

ApprovedDraftWithReviewers ==
    /\ last.op = "update_pr_status"
    /\ last.pr.state = "open" /\ last.pr.is_draft
    /\ last.is_approved /\ last.has_reviewers
    /\ item.pr_status = "Approved"
    /\ item.status = "PrReview"

\* ------------------------------------------------------------------ recovery
\* C7: recover_sessions reports every session tagged with this machine and
\* classifies it from (process alive, worktree exists) alone: alive gives Resume,
\* not alive with the worktree gives Restart, not alive without it gives Cleanup.
RecoveryTable ==
    last.op = "recover_sessions" =>
        /\ \A s \in SessionNames :
              sessions[s].exists /\ sessions[s].env.machine_id = hostname
                  => s \in DOMAIN last.recovered
        /\ \A s \in DOMAIN last.recovered :
              LET alive == sessions[s].alive
                  present == sessions[s].env.worktree \in worktrees
              IN last.recovered[s].recommended_action =
                    (CASE alive -> "Resume"
                       [] ~alive /\ present -> "Restart"
                       [] OTHER -> "Cleanup")

ResumeWithoutWorktreeAndRestart ==
    /\ last.op = "recover_sessions"
    /\ \E s, t \in DOMAIN last.recovered :
          /\ last.recovered[s].recommended_action = "Resume"
          /\ ~last.recovered[s].worktree_exists
          /\ last.recovered[t].recommended_action = "Restart"

ForeignSession(s) ==
    sessions[s].exists /\ sessions[s].env.machine_id \notin {NoEnv, hostname}

\* C8: recover_all_sessions neither restarts nor kills a session whose stored
\* machine id differs from this machine's, whatever the flags and the session's
\* liveness and worktree.
ForeignSessionsUntouched ==
    [][last'.op = "recover_all_sessions" =>
          \A s \in SessionNames :
              ForeignSession(s) => sessions'[s] = sessions[s] /\ s \notin DOMAIN last'.results]_vars

ForeignDeadSessionSurvivesCleanup ==
    /\ last.op = "recover_all_sessions"
    /\ last.auto_restart /\ last.auto_cleanup
    /\ \E t \in DOMAIN last.results : last.results[t].did = "kill"
    /\ \E s \in SessionNames :
          /\ ForeignSession(s)
          /\ ~sessions[s].alive
          /\ sessions[s].env.worktree \notin worktrees

IncompleteMetadata(s) ==
    /\ sessions[s].exists
    /\ \E k \in 1 .. Len(EnvKeys) : sessions[s].env[EnvKeys[k]] = EmptyEnv[EnvKeys[k]]

\* C9: recover_all_sessions neither restarts nor kills a session whose stored
\* metadata is incomplete, whatever auto_restart and auto_cleanup are.
IncompleteSessionsUntouched ==
    [][last'.op = "recover_all_sessions" =>
          \A s \in SessionNames : IncompleteMetadata(s) => sessions'[s] = sessions[s]]_vars

\* --------------------------------------------------------------------- spawn
SpawnedBefore(n) ==
    /\ n \in worktrees
    /\ n \in branches
    /\ \E s \in SessionNames : sessions[s].exists /\ sessions[s].env.issue_ref = n

\* C10: a spawn for an issue that already has its session, worktree and branch
\* fails, with the collision error once the tracker has answered, and has created
\* no worktree, session, container, comment or label.
SecondSpawnCollides ==
    [][\A n \in Issues :
          SpawnedBefore(n) /\ last'.op = "spawn_agent" /\ last'.issue = n =>
              /\ ~last'.ok
              /\ last'.err /= "tracker error" => last'.err = "collision"
              /\ last'.created = NothingCreated
              /\ sessions' = sessions
              /\ worktrees' = worktrees
              /\ branches' = branches
              /\ containers' = containers]_vars

SecondSpawnRefused ==
    /\ last.op = "spawn_agent"
    /\ last.err = "collision"
    /\ last.issue \in Issues
    /\ SpawnedBefore(last.issue)
    /\ \E s \in SessionNames :
          sessions[s].exists /\ sessions[s].alive /\ sessions[s].env.issue_ref = last.issue

\* ------------------------------------------------------------------ pipeline
CompletedIsMerged(it) ==
    it.status = "Completed" => it.pr_status = "Merged" /\ it.pr_number /= None

WasCompleted(id) == id \in DOMAIN items /\ items[id].status = "Completed"

HandedMerged(it) == it.pr_number /= None /\ prs[it.pr_number] = "merged" /\ prs' = prs

\* C1: a Completed item, active or archived, has pr_status Merged and a PR number;
\* and a step makes an item Completed only when the state of the PR handed to it
\* is merged.
CompletedOnlyByMergedPr ==
    /\ [](/\ \A id \in DOMAIN items : CompletedIsMerged(items[id])
          /\ \A i \in 1 .. Len(history) : CompletedIsMerged(history[i]))
    /\ [][/\ \A id \in DOMAIN items' :
                items'[id].status = "Completed" /\ ~WasCompleted(id)
                    => HandedMerged(items'[id])
          /\ \A i \in 1 .. Len(history') :
                /\ i > Len(history)
                /\ history'[i].status = "Completed"
                /\ ~WasCompleted(history'[i].id)
                => HandedMerged(history'[i])]_vars

CompletedItemArchived ==
    /\ Len(history) = 1
    /\ history[1].status = "Completed"
    /\ history[1].pr_status = "Merged"
    /\ history[1].session_name /= None

Stage(status) ==
    CASE status = "Queued" -> 0
      [] status = "InProgress" -> 1
      [] status \in {"PrPending", "PrReview"} -> 2
      [] OTHER -> 3

\* C3: no pipeline operation moves an item of the active set to an earlier stage
\* of Queued -> InProgress -> {PrPending | PrReview} -> terminal; in particular a
\* PrPending or PrReview item is never put back to InProgress or Queued.
StatusNeverMovesBack ==
    [][\A id \in DOMAIN items \cap DOMAIN items' :
          Stage(items'[id].status) >= Stage(items[id].status)]_vars

\* ----------------------------------------------------------------- lifecycle
SessionsOf(n) ==
    { s \in AllSessionNames : sessions[s].exists /\ sessions[s].env.issue_ref = n }

\* C11: every issue number has at most one worktree and at most one tmux session
\* referring to it.
OneSessionAndWorktreePerIssue ==
    \A n \in Issues :
        /\ Cardinality(SessionsOf(n)) <= 1
        /\ Cardinality({ w \in worktrees : w = n }) <= 1

\* ------------------------------------------------------------- spawn failures
\* C12: a spawn whose audit comment or label update failed still returns
\* success.
AuditFailureNotFatal ==
    last.op = "spawn_agent" /\ last.err \in {"comment failed", "labels failed"} =>
        last.ok

PreconditionErrors == {"issue not found", "collision", "unknown agent type"}

\* C13: a spawn refused for a precondition (missing issue, worktree or branch
\* already there, unknown agent type) has created no worktree and no session.
PreconditionFailsBeforeAnyAction ==
    [][last'.op = "spawn_agent" /\ last'.err \in PreconditionErrors =>
          /\ ~last'.created.worktree
          /\ ~last'.created.session
          /\ worktrees' = worktrees
          /\ sessions' = sessions]_vars

\* --------------------------------------------------------- epic orchestration
\* C14: a second start_orchestration for the same epic and the same phases,
\* right after a first that succeeded, creates no sub-issue.
SecondStartCreatesNothing ==
    [][(/\ last.op = "start_orchestration"
        /\ last.ok
        /\ last'.op = "start_orchestration"
        /\ last'.epic = last.epic
        /\ RangeOf(last'.phases) = RangeOf(last.phases))
          => (last'.created = << >> /\ Len(tracker') = Len(tracker))]_vars

CreatedForPhase(created, m) == Cardinality({ i \in DOMAIN created : created[i].phase = m })

HadSubIssue(e, m) == \E n \in DOMAIN tracker : tracker[n].epic = e /\ tracker[n].phase = m

\* C15: one start_orchestration creates exactly one sub-issue for a phase M that
\* is asked for, is a phase of the epic and had no sub-issue, and none for any
\* other phase, however often M is in the list.
OneSubIssuePerMissingPhase ==
    [][last'.op = "start_orchestration" /\ last'.ok =>
          \A m \in 1 .. MaxPhase + 1 :
              CreatedForPhase(last'.created, m) =
                  IF /\ m \in RangeOf(last'.phases)
                     /\ m <= Len(load_epic(last'.epic).phases)
                     /\ ~HadSubIssue(last'.epic, m)
                  THEN 1 ELSE 0]_vars

NonManual(subs) == SelectSeq(subs, LAMBDA x : x.agent_type /= "manual")

\* C16: when agents are spawned and a spawn fails, the call still returns Ok,
\* reports the sub-issues it created, has tried a spawn for every sub-issue of
\* the result that is not manual, and holds one warning per failed spawn.
SpawnFailureIsWarning ==
    last.op = "start_orchestration" /\ last.auto_spawn /\ last.warnings /= << >> =>
        /\ last.ok
        /\ RangeOf(last.created) \subseteq RangeOf(last.sub_issues)
        /\ last.attempted = IssueNumbers(NonManual(last.sub_issues))
        /\ Len(last.warnings) + Len(last.spawned) = Len(last.attempted)
        /\ RangeOf(last.warnings) \cup RangeOf(last.spawned) = RangeOf(last.attempted)

FailedSpawnThenSpawn ==
    /\ last.op = "start_orchestration"
    /\ last.ok
    /\ Len(last.attempted) = 2
    /\ last.warnings = << last.attempted[1] >>
    /\ last.spawned = << last.attempted[2] >>
    /\ sessions[IssueSession(last.attempted[2])].exists

StatusLineOf(body, p) ==
    LET heads == { h \in DOMAIN body : body[h] = PhaseHeader(p) }
        inSection(h, j) == /\ j > h
                           /\ body[j].k = "**Status**:"
                           /\ \A m \in h + 1 .. j - 1 :
                                  body[m].k \notin {"### Phase", "**Status**:"} /\ ~IsTopSection(body[m])
    IN IF \E h \in heads, j \in DOMAIN body : inSection(h, j)
       THEN CHOOSE j \in DOMAIN body : \E h \in heads : inSection(h, j)
       ELSE None

BodySays(p) ==
    IF StatusLineOf(epicBody, p) = None THEN "not_started"
    ELSE epicBody[StatusLineOf(epicBody, p)].s

\* The statuses the two resolvers give the phases of the epic in this state.
ResolvedStatuses ==
    [ get |-> get_epic_phase_status(Epic, load_epic(Epic).phases),
      sync |-> set_active_epic_from_recovery(load_epic_for_recovery(Epic, TRUE)) ]

HasSubIssues(p) == phase_issues(Epic, p) /= {}

\* What the sub-issues of a phase say: completed when all are closed.
SubIssuesSay(p) ==
    IF \A n \in phase_issues(Epic, p) : tracker[n].state = "closed"
    THEN "completed" ELSE "in_progress"

OnlyListedStatusAndProgressChange ==
    [][last'.op \in {"update_epic_phase_status_on_github", "mark_phase_status"} =>
          /\ Len(epicBody') = Len(epicBody)
          /\ \A i \in DOMAIN epicBody :
                epicBody'[i] /= epicBody[i] =>
                    \/ \E p \in last'.listed : i = StatusLineOf(epicBody, p)
                    \/ i > 1 /\ epicBody[i - 1] = ProgressHeader]_vars

\* -------------------------------------------------------- orphaned containers
\* The sessions on the tmux server whose metadata names issue n.
SessionsFor(n) ==
    { s \in AllSessionNames : sessions[s].exists /\ sessions[s].env.issue_ref = n }

\* The containers whose issue has no session.
Orphans == { c \in containers : SessionsFor(container_issue(c)) = {} }

\* C20: a pass of cleanup_orphaned_containers that lists the containers and the
\* sessions succeeds, reports as found the number of containers whose issue has
\* no session, removes exactly those of them whose removal does not fail and
\* reports their number as removed: every orphan when no removal fails, and
\* found = 1, removed = 1 for a single orphan.
OrphansRemovedAndCounted ==
    [][(/\ last'.op = "cleanup_orphaned_containers"
        /\ last'.docker = "ok" /\ last'.tmux_ok)
       => /\ last'.result.ok
          /\ last'.result.found = Cardinality(Orphans)
          /\ containers \ containers' = Orphans \ last'.rm_fails
          /\ containers' \subseteq containers
          /\ last'.result.removed = Cardinality(containers \ containers')
          /\ (Cardinality(Orphans) = 1 /\ last'.rm_fails = {})
                => last'.result.found = 1 /\ last'.result.removed = 1]_vars

\* A pass removed the only orphan and left the container of a session in place.
OneOrphanRemoved ==
    /\ last.op = "cleanup_orphaned_containers"
    /\ last.docker = "ok" /\ last.tmux_ok
    /\ last.result.ok /\ last.result.found = 1 /\ last.result.removed = 1
    /\ containers /= {}

\* C21: a pass that finds the container runtime unavailable (the daemon does not
\* answer, or the docker command cannot be started) returns success with
\* found = 0 and removed = 0.
UnavailableRuntimeIsNothingToClean ==
    (last.op = "cleanup_orphaned_containers"
        /\ last.docker \in {"daemon down", "not executable"})
    => (last.result.ok /\ last.result.found = 0 /\ last.result.removed = 0)

\* ------------------------------------------------------------ port allocation
\* C22: allocate_port_range(n) = allocate_port_range(n + 100k) for every issue
\* number n and every k >= 0: the range depends only on n mod 100.
PortRangeRepeatsEveryHundred ==
    last.op = "allocate_port_range"
    => /\ last.range = allocate_port_range(last.issue_number % 100)
       /\ \A k \in 0 .. MaxPortIssue \div 100 :
             allocate_port_range(last.issue_number + 100 * k) = last.range

\* The range of an issue number of 100 or more, which is that of the issue 100 below.
RangeOfIssueBeyondHundred ==
    /\ last.op = "allocate_port_range"
    /\ last.issue_number >= 100
    /\ last.range = allocate_port_range(last.issue_number - 100)
    /\ last.range /= allocate_port_range(last.issue_number - 1)

\* C23: with slot = n mod 100, base = 30000 + slot * 100 and end = base + 99,
\* allocate_port_range(n) is (base, end) and remap_port_to_range(p, n) is
\* base + (p mod 100) for every 16-bit port p; no step exceeds 16 bits and
\* base <= remapped port <= end.
RemappedPortInRange ==
    last.op = "remap_port_to_range"
    => LET slot == last.issue_number % 100
           base == 30000 + slot * 100
           end == base + 99
       IN /\ allocate_port_range(last.issue_number) = PortRange(base, end)
          /\ last.host_port = base + (last.container_port % 100)
          /\ slot * 100 <= U16Max /\ base + 100 <= U16Max
          /\ base + (last.container_port % 100) <= U16Max
          /\ base <= last.host_port /\ last.host_port <= end

\* The largest container port remapped into the last slot's range.
LargestPortRemapped ==
    /\ last.op = "remap_port_to_range"
    /\ last.container_port = U16Max
    /\ last.issue_number % 100 = 99
    /\ last.host_port = 39935

\* ------------------------------------------------------------------ aggregation
\* The sessions that carry an issue number, as list_agent_statuses reports them.
IssueStatuses ==
    { AgentStatusOf(s) : s \in { t \in list_sessions : sessions[t].env.issue_ref /= None } }

SessionMatches(st, it, work_repo) ==
    LET repo == IF st.repo = NoEnv THEN work_repo ELSE st.repo IN
    it.issue_number = st.issue_number /\ (it.tracking_repo = repo \/ it.work_repo = repo)

RefreshedFrom(before, after, st) ==
    after = [ before EXCEPT !.session_name = st.session, !.worktree_path = st.worktree,
                            !.machine_id = st.machine_id,
                            !.status = IF before.status \in {"Completed", "Skipped", "Failed"}
                                       THEN before.status ELSE "InProgress" ]

RefreshedByMatch(id, work_repo) ==
    \E st \in IssueStatuses :
        SessionMatches(st, items[id], work_repo) /\ RefreshedFrom(items[id], items'[id], st)

TerminalIds == { id \in DOMAIN items : items[id].status \in {"Completed", "Skipped", "Failed"} }

LastEntries(h, n) == IF Len(h) > n THEN SubSeq(h, Len(h) - n + 1, Len(h)) ELSE h

SaveOverwritesLaterUpdates ==
    [][last'.op = "save" =>
        \A id \in DOMAIN items :
            id \notin DOMAIN inflight[last'.handler].copy.items => id \notin DOMAIN items']_vars

\* Two assign_issue_to_agent calls have returned and one item is persisted.
AssignmentLost ==
    /\ \A h \in Handlers : inflight[h] = Idle
    /\ last.op = "save" /\ last.kind = "assign"
    /\ nextId = 2
    /\ Cardinality(DOMAIN items) = 1
    /\ history = << >>

\* ----------------------------------------------------------- spawns at once
BothSpawned == \A h \in Spawners : inflight[h].pc = "done"

\* The sessions, worktrees, branches and containers after the spawn of c1 and
\* then that of c2, one after the other, from the initial state.
SpawnedInTurn(c1, c2) ==
    LET first == spawn_agent_in([ s \in AllSessionNames |-> NoSession ], {}, {}, {}, c1,
                                TRUE, NoFault)
        second == spawn_agent_in(first.sessions, first.worktrees, first.branches,
                                 first.containers, c2, TRUE, NoFault)
    IN [ sessions |-> second.sessions, worktrees |-> second.worktrees,
         branches |-> second.branches, containers |-> second.containers,
         ok |-> first.ok /\ second.ok ]

SpawnedState ==
    [ sessions |-> sessions, worktrees |-> worktrees, branches |-> branches,
      containers |-> containers, ok |-> \A h \in Spawners : inflight[h].ok ]

BothAgentsRun ==
    \A h \in Spawners : inflight[h].ok /\ sessions[inflight[h].config.session_name].alive

SameSlot ==
    inflight[1].config.issue_number % 100 = inflight[2].config.issue_number % 100

ExistingFor(e, m) == existing_phase_issue(e, m, tracker)

ReusedPhases(e, phases) ==
    { m \in RangeOf(phases) : m <= Len(load_epic(e).phases) /\ ExistingFor(e, m) /= None }

\* C28: a start_orchestration that succeeds, its listing answered, lists the
\* existing sub-issue of every requested phase that has one in sub_issues and
\* the phase in started_phases, and tries a spawn for it when agents are
\* spawned, whether or not other phases get new sub-issues in the call.
ReusedSubIssueInResult ==
    [][(last'.op = "start_orchestration" /\ last'.ok /\ ~last'.listing_failed) =>
          \A m \in ReusedPhases(last'.epic, last'.phases) :
              /\ ExistingFor(last'.epic, m) \in RangeOf(IssueNumbers(last'.sub_issues))
              /\ m \in RangeOf(last'.started_phases)
              /\ last'.auto_spawn =>
                    ExistingFor(last'.epic, m) \in RangeOf(last'.attempted)]_vars

\* C30: a start_orchestration whose listing fails creates no sub-issue for a
\* phase that has one.
FailedListingCreatesNoDuplicate ==
    [][(last'.op = "start_orchestration" /\ last'.listing_failed) =>
          \A m \in 1 .. MaxPhase :
              HadSubIssue(last'.epic, m) => CreatedForPhase(last'.created, m) = 0]_vars

\* ------------------------------------------------------- recovery of sessions
\* The class of a session of this machine, from the process and the worktree.
ClassOf(s) ==
    CASE sessions[s].alive -> "Resume"
      [] ~sessions[s].alive /\ sessions[s].env.worktree \in worktrees -> "Restart"
      [] OTHER -> "Cleanup"

OfThisMachine(s) == sessions[s].exists /\ sessions[s].env.machine_id = hostname

\* C29: recover_all_sessions leaves a Resume session as it is, changes a
\* Restart session only with auto_restart and then only by starting the agent,
\* changes a Cleanup session only with auto_cleanup and then by killing it;
\* with both flags false no session changes and every Restart or Cleanup
\* session is reported as not recovered.
RecoverAllHonoursFlags ==
    [][last'.op = "recover_all_sessions" =>
          /\ \A s \in AllSessionNames : OfThisMachine(s) =>
                /\ s \in DOMAIN last'.results
                /\ last'.results[s].action = ClassOf(s)
                /\ ClassOf(s) = "Resume" => sessions'[s] = sessions[s]
                /\ ClassOf(s) = "Restart" =>
                      \/ sessions'[s] = sessions[s]
                      \/ /\ last'.auto_restart
                         /\ sessions'[s] = [ sessions[s] EXCEPT !.alive = TRUE ]
                /\ ClassOf(s) = "Cleanup" =>
                      \/ sessions'[s] = sessions[s]
                      \/ last'.auto_cleanup /\ sessions'[s] = NoSession
          /\ (~last'.auto_restart /\ ~last'.auto_cleanup) =>
                /\ sessions' = sessions
                /\ \A s \in DOMAIN last'.results :
                      last'.results[s].action \in {"Restart", "Cleanup"}
                          => ~last'.results[s].success]_vars

\* With both flags false a Restart and a Cleanup session were passed over.
RestartAndCleanupLeftAlone ==
    /\ last.op = "recover_all_sessions"
    /\ ~last.auto_restart /\ ~last.auto_cleanup
    /\ \E s, t \in DOMAIN last.results :
          /\ last.results[s].action = "Restart" /\ ~last.results[s].success
          /\ last.results[t].action = "Cleanup" /\ ~last.results[t].success
          /\ sessions[s].exists /\ sessions[t].exists

\* ---------------------------------------------------------- terminal statuses
\* C31: an item of the active set whose status is Completed, Skipped or Failed
\* keeps that status through every pipeline operation that leaves it in the
\* active set (start_work, link_pr, update_pr_status, PR detection, PR sync,
\* session aggregation).
TerminalStatusAbsorbing ==
    [][\A id \in DOMAIN items \cap DOMAIN items' :
          is_complete(items[id]) => items'[id].status = items[id].status]_vars

\* C32: an item whose status is Completed, Skipped or Failed has completed_at
\* set, whichever method made it terminal.
TerminalHasCompletedAt ==
    is_complete(item) => item.completed_at

\* C33: link_pr(pr) leaves the pr_status and the status that
\* update_pr_status(pr, no reviewers, not approved) leaves on the same item,
\* for every PR state in either case and either draft flag.
LinkPrAgreesWithUpdatePrStatus ==
    last.op = "link_pr" =>
        LET updated == update_pr_status(last.before, last.pr, FALSE, FALSE) IN
        /\ item.pr_status = updated.pr_status
        /\ item.status = updated.status

\* ------------------------------------------------------------- the history log
\* C34: the history log never holds more than max_history items.
HistoryWithinMaxHistory ==
    Len(history) <= max_history

\* C35: archive_item appends every item it removes from the active set to the
\* history (cut to max_history from the oldest end), and leaves an item whose
\* status is not terminal in the active set.
ArchiveItemKeepsItem ==
    [][last'.op = "archive_item" =>
          LET id == last'.id IN
          /\ id \notin DOMAIN items' =>
                history' = LastEntries(Append(history, items[id]), max_history)
          /\ ~is_complete(items[id]) => (id \in DOMAIN items' /\ items'[id] = items[id])]_vars

\* ------------------------------------------------- containers of live sessions
\* C36: no pass of cleanup_orphaned_containers removes a container whose issue
\* number has a session at the time of the pass, also when the listing of the
\* sessions fails during the pass.
ContainerOfLiveSessionKept ==
    [][last'.op = "cleanup_orphaned_containers" =>
          \A c \in containers \ containers' : SessionsFor(container_issue(c)) = {}]_vars

\* ---------------------------------------------------------- the master session
\* C37: recover_all_sessions leaves the master session as it is, neither killed
\* nor sent a start command, for every auto_restart and auto_cleanup and
\* whether or not a non-shell process runs in its pane.
MasterSessionLeftAlone ==
    [][(last'.op = "recover_all_sessions" /\ sessions[MasterSession].exists) =>
          sessions'[MasterSession] = sessions[MasterSession]]_vars

\* ------------------------------------------------------- ports of one sandbox
\* C38: for one issue number remap_port_to_range gives distinct container
\* ports distinct host ports, so the mappings of one container bind no host
\* port twice.
RemapInjectiveWithinIssue ==
    last.op = "remap_port_to_range" =>
        \A q \in DetectedPorts \ {last.container_port} :
            remap_port_to_range(q, last.issue_number) /= last.host_port

\* ---------------------------------------------------------------- the PR polls
\* C39: once a poll has reported the pull request of an issue as new, no later
\* poll reports it as new again while the session and the pull request stay,
\* whatever happens between the polls.
PrReportedNewOnce ==
    [][(last'.op = "check_sessions_for_prs" /\ UNCHANGED <<sessions, prs>>)
          => last'.is_new \cap reportedNew = {}]_vars

\* ------------------------------------------------------- orchestrations at once
SubIssuesOfPhase(m) ==
    { n \in DOMAIN tracker : tracker[n].epic = Epic /\ tracker[n].phase = m }

\* C40: start_orchestration invocations for the same epic and phase, their
\* scans and creations interleaved, create at most one sub-issue for the phase.
OneSubIssueForPhaseAtOnce ==
    \A m \in 1 .. MaxPhase : Cardinality(SubIssuesOfPhase(m)) <= 1

====
